---- MODULE Spec2Model ----
(***************************************************************************)
(* Model of scripts/ascii-globe.js: the rotating ASCII globe, its          *)
(* particle simulation, its input handlers, its resize debounce and its    *)
(* mount / teardown life cycle.                                            *)
(*                                                                         *)
(* Numbers.  The script computes in IEEE doubles; the model computes in    *)
(* fixed point.  Lengths and velocities are in sub-pixels (UNIT per        *)
(* pixel), angles in milliradians, sines, cosines and the random samples   *)
(* in thousandths (MILLI).  Products are divided with floor rounding.      *)
(***************************************************************************)
EXTENDS Integers, Sequences, FiniteSets, TLC

\* ------------------------------------------------------------------------
\* Bounds of the model
\* ------------------------------------------------------------------------
MaxParticles == 3       \* particles per globe (the script uses 600)
MaxFrames == 1          \* frame callbacks delivered per behaviour
MaxTimers == 2          \* timers set per behaviour
MaxNavs == 1            \* URL changes per behaviour

\* ------------------------------------------------------------------------
\* Fixed-point representation
\* ------------------------------------------------------------------------
UNIT == 10              \* sub-pixels per pixel
MILLI == 1000           \* scale of sines, cosines, random samples, radians
PI == 3142              \* Math.PI in milliradians
TWO_PI == 2 * PI
HALF_PI == PI \div 2

\* ------------------------------------------------------------------------
\* Configuration (ascii-globe.js lines 23-30)
\* ------------------------------------------------------------------------
GLOBE_CHARS == <<"@", "#", "*", "+", "=", "-", ":", ".", "o", "O", "0", "%", "&">>
POINT_COUNT == MaxParticles
GLOBE_RADIUS == 110 * UNIT
ROTATION_SPEED == 2                 \* 0.002 rad per frame
MOUSE_RADIUS == 100 * UNIT
REPEL_STRENGTH == 25                \* pixels per frame at distance 0
RETURN_SPEED_PCT == 6               \* RETURN_SPEED = 0.06
FRICTION_PCT == 88                  \* FRICTION = 0.88
PERCENT == 100
PERSPECTIVE == 350 * UNIT
VISIBLE_DEPTH == 30 * UNIT          \* draw: this.depth < 30
SENTINEL == (0 - 1000) * UNIT       \* mouseX = mouseY = -1000
DEFAULT_WIDTH == 600 * UNIT         \* rect.width || 600
MAX_HEIGHT == 400 * UNIT            \* Math.min(400, ...)
RESIZE_THRESHOLD == 10 * UNIT       \* Math.abs(rect.width - width) > 10
RESIZE_DELAY == 150
RETRY_DELAY == 100
NAV_DELAY == 200
GOLDEN_RATIO == 1618                \* (1 + sqrt 5) / 2 in thousandths

\* ------------------------------------------------------------------------
\* Math
\* ------------------------------------------------------------------------
Abs(a) == IF a < 0 THEN 0 - a ELSE a
Min(a, b) == IF a < b THEN a ELSE b
Max(a, b) == IF a > b THEN a ELSE b

\* Math.sqrt on a non-negative integer, rounded down.
RECURSIVE SqrtIter(_, _, _)
SqrtIter(n, lo, hi) ==
    IF lo >= hi THEN lo
    ELSE LET mid == (lo + hi + 1) \div 2
         IN  IF mid * mid <= n THEN SqrtIter(n, mid, hi)
                               ELSE SqrtIter(n, lo, mid - 1)
Sqrt(n) == SqrtIter(n, 0, Min(n, 46340))

\* Sine of an angle in [0, PI] milliradians, in thousandths (Bhaskara's
\* rational approximation 4p / (5 PI^2 / 4 - p), p = a (PI - a)).
SinHalfTurn(a) ==
    LET p == a * (PI - a)
    IN  (4 * p) \div (((5 * PI * PI) \div 4 - p) \div MILLI)

\* Math.sin and Math.cos of an angle in milliradians, in thousandths.
Sin(a) ==
    LET r == a % TWO_PI
    IN  IF r <= PI THEN SinHalfTurn(r) ELSE 0 - SinHalfTurn(r - PI)
Cos(a) == Sin(a + HALF_PI)

\* Math.acos of a cosine in thousandths: the angle of [0, PI] whose cosine is
\* nearest from above (Cos is non-increasing on [0, PI]).
RECURSIVE AcosIter(_, _, _)
AcosIter(c, lo, hi) ==
    IF lo >= hi THEN lo
    ELSE LET mid == (lo + hi) \div 2
         IN  IF Cos(mid) <= c THEN AcosIter(c, lo, mid)
                              ELSE AcosIter(c, mid + 1, hi)
Acos(c) == AcosIter(c, 0, PI)


\* ------------------------------------------------------------------------
\* Inputs the environment can supply
\* ------------------------------------------------------------------------
\* Math.random() in thousandths.
RandomSamples == {0, 999}
\* The draws of Math.random() by the constructors of one run of init(): for
\* each particle the draw of line 44 and the draw of line 51.
ConstructDraws ==
    { [i \in 1..MaxParticles |-> <<0, 0>>],
      [i \in 1..MaxParticles |-> IF i % 2 = 1 THEN <<999, 500>> ELSE <<500, 999>>] }
\* The draws of Math.random() at line 82 in one frame, one for each particle.
JitterDraws == { [i \in 1..MaxParticles |-> r] : r \in RandomSamples }
\* container.getBoundingClientRect().width after a resize (0: not laid out).
WidthSamples == {0, 610 * UNIT, 640 * UNIT}
INITIAL_WIDTH == 600 * UNIT
INNER_HEIGHT == 900 * UNIT          \* window.innerHeight
\* Pointer events: client coordinates and the canvas's bounding rectangle.
PointerSamples ==
    { [clientX |-> 340 * UNIT, clientY |-> 280 * UNIT, left |-> 20 * UNIT, top |-> 80 * UNIT],
      [clientX |-> 440 * UNIT, clientY |-> 230 * UNIT, left |-> 20 * UNIT, top |-> 30 * UNIT] }

\* ------------------------------------------------------------------------
\* Particle (ascii-globe.js lines 40-130)
\* ------------------------------------------------------------------------
\* new Particle(theta, phi); cs = the constructor's two random draws.  key is
\* the identity of the object: <<run of init, creation index>>.
NewParticle(theta, phi, cs, key) ==
    [ theta |-> theta, phi |-> phi,
      char |-> GLOBE_CHARS[((cs[1] * Len(GLOBE_CHARS)) \div MILLI) + 1],
      x |-> 0, y |-> 0, targetX |-> 0, targetY |-> 0, vx |-> 0, vy |-> 0,
      baseSize |-> 8 * MILLI + 6 * cs[2],
      depth |-> 0,
      originalTheta |-> theta, originalPhi |-> phi,
      key |-> key ]

\* The 3D position on the sphere of a particle under rotation rotationY.
X3d(p, rotationY) == (((GLOBE_RADIUS * Sin(p.phi)) \div MILLI) * Cos(p.theta + rotationY)) \div MILLI
Y3d(p) == (GLOBE_RADIUS * Cos(p.phi)) \div MILLI
Z3d(p, rotationY) == (((GLOBE_RADIUS * Sin(p.phi)) \div MILLI) * Sin(p.theta + rotationY)) \div MILLI

\* perspective / (perspective + z3d + GLOBE_RADIUS), in thousandths.
Scale(z3d) == (PERSPECTIVE * MILLI) \div (PERSPECTIVE + z3d + GLOBE_RADIUS)

\* Mutant of Project: the rotation accumulated into the stored angle.
Project_StoresRotation(p, g, rotationY) ==
    LET z3d == Z3d(p, rotationY)
        scale == Scale(z3d)
    IN  [p EXCEPT !.targetX = (g.width \div 2) + (X3d(p, rotationY) * scale) \div MILLI,
                  !.targetY = (g.height \div 2) + (Y3d(p) * scale) \div MILLI,
                  !.depth = z3d,
                  !.theta = @ + rotationY]

\* Lines 59-69: the particle with its target and depth recomputed.
Project(p, g, rotationY) ==
    LET z3d == Z3d(p, rotationY)
        scale == Scale(z3d)
    IN  [p EXCEPT !.targetX = (g.width \div 2) + (X3d(p, rotationY) * scale) \div MILLI,
                  !.targetY = (g.height \div 2) + (Y3d(p) * scale) \div MILLI,
                  !.depth = z3d]

\* Line 75: distance from the pointer to the particle's current position.
Dist(p, g) ==
    LET dx == p.x - g.mouseX
        dy == p.y - g.mouseY
    IN  Sqrt(dx * dx + dy * dy)

\* Line 77: the guard of the repulsion.
InRadius(dist) == dist < MOUSE_RADIUS /\ dist > 0

\* Mutant of Force: a linear falloff, the square forgotten.
Force_Linear(dist) ==
    LET ratio == ((MOUSE_RADIUS - dist) * MILLI) \div MOUSE_RADIUS
    IN  ratio * MILLI * REPEL_STRENGTH

\* Line 78: Math.pow((MOUSE_RADIUS - dist) / MOUSE_RADIUS, 2) * REPEL_STRENGTH,
\* in millionths of a pixel per frame.
Force(dist) ==
    LET ratio == ((MOUSE_RADIUS - dist) * MILLI) \div MOUSE_RADIUS
    IN  ratio * ratio * REPEL_STRENGTH

\* Line 82: (Math.random() - 0.5) * 0.5, in milliradians.
Jitter(r) == ((r - MILLI \div 2) * (MILLI \div 2)) \div MILLI

\* Lines 79-83: Math.cos(Math.atan2(dy, dx) + jitter) and the sine, in
\* thousandths, by the angle-sum formulas on (dx, dy) / dist.
DirX(dx, dy, dist, j) == (dx * Cos(j) - dy * Sin(j)) \div dist
DirY(dx, dy, dist, j) == (dy * Cos(j) + dx * Sin(j)) \div dist

\* A force in millionths of a pixel along a direction in thousandths, as a
\* velocity in sub-pixels per frame.
Impulse(force, dir) == ((force \div MILLI) * dir * UNIT) \div (MILLI * MILLI)

\* Lines 72-86: the impulse added to the velocity by the mouse repulsion;
\* r is the Math.random() draw of line 82.
Repel(p, g, r) ==
    IF g.isMouseInCanvas
    THEN LET dx == p.x - g.mouseX
             dy == p.y - g.mouseY
             dist == Dist(p, g)
         IN  IF InRadius(dist)
             THEN [x |-> Impulse(Force(dist), DirX(dx, dy, dist, Jitter(r))),
                   y |-> Impulse(Force(dist), DirY(dx, dy, dist, Jitter(r)))]
             ELSE [x |-> 0, y |-> 0]
    ELSE [x |-> 0, y |-> 0]

\* Lines 89-90: (target - position) * RETURN_SPEED.
Spring(target, pos) == ((target - pos) * RETURN_SPEED_PCT) \div PERCENT
\* Mutant of Friction: a damping that keeps a tenth of the velocity.
Friction_Heavy(v) == (v * 10) \div PERCENT

\* Lines 96-97: velocity * FRICTION.
Friction(v) == (v * FRICTION_PCT) \div PERCENT

\* Mutant of ParticleUpdate: the friction applied before the spring impulse.
ParticleUpdate_FrictionBeforeSpring(p, g, rotationY, r) ==
    LET q == Project(p, g, rotationY)
        rep == Repel(q, g, r)
        vx3 == Friction(q.vx + rep.x) + Spring(q.targetX, q.x)
        vy3 == Friction(q.vy + rep.y) + Spring(q.targetY, q.y)
    IN  [q EXCEPT !.vx = vx3, !.vy = vy3, !.x = q.x + vx3, !.y = q.y + vy3]

\* Particle.update(rotationY), lines 57-102, in the closure g.
ParticleUpdate(p, g, rotationY, r) ==
    LET q == Project(p, g, rotationY)
        rep == Repel(q, g, r)
        vx1 == q.vx + rep.x
        vy1 == q.vy + rep.y
        vx2 == vx1 + Spring(q.targetX, q.x)
        vy2 == vy1 + Spring(q.targetY, q.y)
        vx3 == Friction(vx2)
        vy3 == Friction(vy2)
    IN  [q EXCEPT !.vx = vx3, !.vy = vy3, !.x = q.x + vx3, !.y = q.y + vy3]

\* Mutant of Visible: the cull forgotten.
Visible_NoCull(p) == TRUE

\* Line 106: the visibility test of draw.
Visible(p) == p.depth < VISIBLE_DEPTH

\* Lines 107-121, in thousandths (of 1, of a pixel, of a percent).
NormalizedDepth(p) == ((p.depth + GLOBE_RADIUS) * MILLI) \div (GLOBE_RADIUS * 2)
Alpha(p) == Max(100, 150 + (NormalizedDepth(p) * 85) \div PERCENT)
Size(p) == (p.baseSize * (400 + (NormalizedDepth(p) * 60) \div PERCENT)) \div MILLI
Displacement(p) ==
    Sqrt((p.x - p.targetX) * (p.x - p.targetX) + (p.y - p.targetY) * (p.y - p.targetY))
\* Mutant of Saturation: the displacement added instead of subtracted.
Saturation_Rising(p) ==
    Max(30 * MILLI, 70 * MILLI + (Displacement(p) * (MILLI \div 2)) \div UNIT)
Saturation(p) == Max(30 * MILLI, 70 * MILLI - (Displacement(p) * (MILLI \div 2)) \div UNIT)
Lightness(p) ==
    Min(80 * MILLI, 45 * MILLI + NormalizedDepth(p) * 25 + (Displacement(p) * 300) \div UNIT)

\* Particle.draw(ctx), lines 104-129: the fillText calls it issues.
ParticleDraw(p) ==
    IF Visible(p)
    THEN << [char |-> p.char, x |-> p.x, y |-> p.y, size |-> Size(p), alpha |-> Alpha(p),
             saturation |-> Saturation(p), lightness |-> Lightness(p), key |-> p.key] >>
    ELSE << >>

\* ------------------------------------------------------------------------
\* State
\* ------------------------------------------------------------------------
VARIABLES
    readyState,      \* document.readyState: "loading" or "complete"
    script,          \* has the script's top level (lines 246-263) run?
    domLoadedPending, \* is initGlobe waiting for DOMContentLoaded (line 248)?
    href,            \* location.href (a counter of URLs)
    lastUrl,         \* lastUrl of the MutationObserver closure
    canvasEl,        \* does #ascii-globe-canvas exist?
    containerEl,     \* does #ascii-globe-container exist?
    context2d,       \* does canvas.getContext('2d') give a context?
    containerWidth,  \* container.getBoundingClientRect().width
    globes,          \* the closures created by the calls of initGlobe
    rafQueue,        \* callbacks requested with requestAnimationFrame
    nextRafId,       \* the next id requestAnimationFrame returns
    timers,          \* timers set with setTimeout and not yet run or cleared
    nextTimerId,     \* the next id setTimeout returns
    listeners,       \* listeners registered on the canvas and the window
    cleanup,         \* window._asciiGlobeCleanup: the globe it tears down, 0 if unset
    drawn,           \* the fillText calls of the latest frame
    errors,          \* exceptions thrown out of a handler
    tornDown,        \* history: globes whose teardown has been invoked
    frames,          \* history: frame callbacks delivered
    lastFrame,       \* history: the latest call of animate: its globe, the closure
                     \* before the call, the draws of Math.random() it made and the
                     \* latest pointer event before it
    lastPointer      \* history: the kind of the latest pointer or touch event

\* The playground (src/playground/src/App.tsx): the state of the App component
\* and the requests it has sent to the verification API.
VARIABLES
    operation,       \* the selected operation
    geometryA,       \* GeoJSON geometry A
    geometryB,       \* GeoJSON geometry B
    radius,          \* radius in metres (used by 'within')
    verifiedResult,  \* the parsed response of the API, NULL if none
    loading,         \* is a verification request being awaited?
    error,           \* the error message shown, NULL if none
    geojsonError,    \* the error under the GeoJSON editor, NULL if none
    geojsonInput,    \* the text in the GeoJSON editor, a sequence of tokens
    preview,         \* the memoised local preview of the latest render
    mode,            \* policy builder: "preview" or "policy"
    chainId,         \* policy builder: the selected chain
    schemaUid,       \* policy builder: the schema UID typed, "" if none
    editingGeometry, \* the geometry the GeoJSON editor edits: "A" or "B"
    useDrawMode,     \* is map editing enabled?
    drawControl,     \* the operation the mounted DrawControl registered its
                     \* delete handler under, NULL while it is not mounted
    inFlight,        \* requests sent with fetch whose promise has not settled
    edits,           \* history: calls of the handlers that edit an input
    requests         \* history: requests sent

policy == << mode, chainId, schemaUid >>

playground == << policy, operation, geometryA, geometryB, radius, verifiedResult, loading, error,
                 geojsonError, geojsonInput, preview, editingGeometry, useDrawMode,
                 drawControl, inFlight, edits, requests >>

globe == << readyState, script, domLoadedPending, href, lastUrl, canvasEl, containerEl,
            context2d, containerWidth, globes, rafQueue, nextRafId, timers, nextTimerId,
            listeners, cleanup, drawn, errors, tornDown, frames, lastFrame, lastPointer >>

NULL == "null"
NoResult == << >>

POINT_A == [type |-> "Point", coordinates |-> "pointA"]
POINT_B == [type |-> "Point", coordinates |-> "pointB"]
DEFAULT_POLYGON == [type |-> "Polygon", coordinates |-> "defaultPolygon"]
DEFAULT_LINE == [type |-> "LineString", coordinates |-> "defaultLine"]
DEFAULT_RADIUS == 500

\* White space between the tokens of a text.
WS == " "

\* JSON.stringify(geom, null, 2): the tokens of the indented text.
StringifyPretty(g) ==
    << "{", WS, "type", g.type, WS, "coordinates", g.coordinates, WS, "}" >>

\* ---- the local preview (turf) ----
\* Coordinates are labels; "malformed" stands for coordinates that are truthy
\* but not positions turf accepts, so that turf.point, turf.polygon and
\* turf.lineString throw.
TurfAccepts(g) == g.coordinates # "malformed"

MM == 1000

\* turf.distance in millimetres: the labelled points lie on one line.
Position(c) ==
    CASE c = "pointB" -> 0
      [] c = "dragged" -> 500000
      [] c = "typed" -> 500004
      [] OTHER -> 1572345

TurfDistance(a, b) == Abs(Position(a.coordinates) - Position(b.coordinates))

\* turf.booleanPointInPolygon.
TurfPointInPolygon(pt, poly) ==
    \/ poly.coordinates = "defaultPolygon" /\ pt.coordinates = "dragged"
    \/ poly.coordinates = "drawn" /\ pt.coordinates \in {"pointB", "typed"}

\* turf.area in thousandths of a square metre, turf.length in millimetres.
TurfArea(poly) == IF poly.coordinates = "defaultPolygon" THEN 770123456 ELSE 123456789
TurfLength(line) == IF line.coordinates = "defaultLine" THEN 1787654 ELSE 345678

\* Math.round(x * 100) / 100 of a value in thousandths, in hundredths; and
\* Math.round(x) of a value in thousandths, in units.
RoundHundredths(x) == (x + 5) \div 10
RoundUnits(x) == (x + 500) \div MM

\* The records preview returns: value null, a number (in hundredths) or a
\* boolean; distance is -1 where the record has no such field.
NullPreview(label) ==
    [kind |-> "null", number |-> 0, truth |-> FALSE, unit |-> "", label |-> label,
     distance |-> -1]
NumberPreview(n, unit, label) ==
    [kind |-> "number", number |-> n, truth |-> FALSE, unit |-> unit, label |-> label,
     distance |-> -1]
BooleanPreview(b, label, distance) ==
    [kind |-> "boolean", number |-> 0, truth |-> b, unit |-> "boolean", label |-> label,
     distance |-> distance]
\* An exception leaving the switch.
ThrownPreview == [NullPreview(<< "throw" >>) EXCEPT !.kind = "throw"]

\* Mutant: the radius itself is outside.
IsWithin_Strict(dist, r) == dist < r * MM

\* dist <= radius, dist in millimetres and radius in metres.
IsWithin(dist, r) == dist <= r * MM

\* The switch of preview, before the catch.
PreviewSwitch(op, gA, gB, r) ==
    CASE op \in {"distance", "within"} ->
            IF gA.type # "Point" \/ gB.type # "Point"
            THEN NullPreview(<< "Need two points" >>)
            ELSE IF ~TurfAccepts(gA) \/ ~TurfAccepts(gB) THEN ThrownPreview
            ELSE LET dist == TurfDistance(gA, gB)
                 IN  IF op = "distance"
                     THEN NumberPreview(RoundHundredths(dist), "meters", << "Distance" >>)
                     ELSE BooleanPreview(IsWithin(dist, r),
                                         << "Within ", ToString(r), "m" >>,
                                         RoundUnits(dist))
      [] op = "contains" ->
            IF gA.type # "Polygon" \/ gB.type # "Point"
            THEN NullPreview(<< "Need polygon + point" >>)
            ELSE IF ~TurfAccepts(gB) \/ ~TurfAccepts(gA) THEN ThrownPreview
            ELSE BooleanPreview(TurfPointInPolygon(gB, gA), << "Point in Polygon" >>, -1)
      [] op = "intersects" ->
            IF gA.type # "Polygon" THEN NullPreview(<< "Need polygon" >>)
            ELSE IF gB.type = "Point"
            THEN IF ~TurfAccepts(gB) \/ ~TurfAccepts(gA) THEN ThrownPreview
                 ELSE BooleanPreview(TurfPointInPolygon(gB, gA), << "Intersects" >>, -1)
            ELSE NullPreview(<< "Intersects" >>)
      [] op = "area" ->
            IF gA.type # "Polygon" THEN NullPreview(<< "Need polygon" >>)
            ELSE IF ~TurfAccepts(gA) THEN ThrownPreview
            ELSE NumberPreview(RoundHundredths(TurfArea(gA)), "square meters", << "Area" >>)
      [] op = "length" ->
            IF gA.type # "LineString" THEN NullPreview(<< "Need line" >>)
            ELSE IF ~TurfAccepts(gA) THEN ThrownPreview
            ELSE NumberPreview(RoundHundredths(TurfLength(gA)), "meters", << "Length" >>)
      [] OTHER -> NullPreview(<< >>)

\* preview: the switch inside try, and the catch.
Preview(op, gA, gB, r) ==
    LET res == PreviewSwitch(op, gA, gB, r)
    IN  IF res.kind = "throw" THEN NullPreview(<< "Error calculating" >>) ELSE res

\* A render after a change of an input recomputes the memoised preview.
Render == preview' = Preview(operation', geometryA', geometryB', radius')

\* The useState initial values of App, and the text the sync effect writes
\* after the first render.
PlaygroundInit ==
    /\ operation = "distance"
    /\ geometryA = POINT_A
    /\ geometryB = POINT_B
    /\ radius = DEFAULT_RADIUS
    /\ verifiedResult = NoResult
    /\ loading = FALSE
    /\ error = NULL
    /\ geojsonError = NULL
    /\ geojsonInput = StringifyPretty(POINT_A)
    /\ preview = Preview("distance", POINT_A, POINT_B, DEFAULT_RADIUS)
    /\ mode = "preview"
    /\ chainId = 84532
    /\ schemaUid = ""
    /\ editingGeometry = "A"
    /\ useDrawMode = FALSE
    /\ drawControl = NULL
    /\ inFlight = {}
    /\ edits = 0
    /\ requests = 0

vars == << readyState, script, domLoadedPending, href, lastUrl, canvasEl, containerEl,
           context2d, containerWidth, globes, rafQueue, nextRafId, timers, nextTimerId,
           listeners, cleanup, drawn, errors, tornDown, frames, lastFrame,
           lastPointer, playground >>

Particles == 1..POINT_COUNT
CanvasEvents == {"mousemove", "mouseleave", "touchmove", "touchend"}

\* The five listeners of lines 223-227 for the globe k.
ListenersOf(k) ==
    { [target |-> "canvas", type |-> t, globe |-> k] : t \in CanvasEvents }
        \cup { [target |-> "window", type |-> "resize", globe |-> k] }

\* ------------------------------------------------------------------------
\* The closure of one call of initGlobe (lines 32-37, 132, 211)
\* ------------------------------------------------------------------------
NewGlobe ==
    [ width |-> 0, height |-> 0,
      mouseX |-> SENTINEL, mouseY |-> SENTINEL, isMouseInCanvas |-> FALSE,
      rotation |-> 0, animationId |-> 0,
      particles |-> << >>,
      resizeTimeout |-> 0,
      inits |-> 0,           \* history: runs of init() that reached line 148
      bursts |-> 0,          \* history: resize events that found no timer pending
      settled |-> 0 ]        \* history: runs of the debounce callback

\* Lines 136-138: the measured size.
MeasuredWidth == IF containerWidth # 0 THEN containerWidth ELSE DEFAULT_WIDTH
MeasuredHeight == Min(MAX_HEIGHT, INNER_HEIGHT \div 2)

\* Lines 152-153 for the index i (from 0).
Theta(i) == (TWO_PI * i * MILLI) \div GOLDEN_RATIO
\* Line 153 for n points: the argument 1 - 2 (i + 0.5) / n, in thousandths,
\* and its arc cosine.
PhiArg(i, n) == MILLI - ((2 * i + 1) * MILLI) \div n
\* Mutant of PhiN: the argument negated.
PhiN_Mirrored(i, n) == Acos(0 - PhiArg(i, n))
PhiN(i, n) == Acos(PhiArg(i, n))
Phi(i) == PhiN(i, POINT_COUNT)
\* The polar angles of the script's own 600 points.
SCRIPT_POINT_COUNT == 600
ScriptPhi == [i \in 0..(SCRIPT_POINT_COUNT - 1) |-> PhiN(i, SCRIPT_POINT_COUNT)]

\* Mutant of InitParticles: every particle given the angles of the first.
InitParticles_RepeatsFirst(g, cs) ==
    [g EXCEPT !.width = MeasuredWidth, !.height = MeasuredHeight, !.inits = @ + 1,
              !.particles =
                  [i \in Particles |->
                      [NewParticle(Theta(0), Phi(0), cs[i], <<g.inits + 1, i>>)
                          EXCEPT !.x = MeasuredWidth \div 2, !.y = MeasuredHeight \div 2]]]

\* Mutant of InitParticles: the particles left where the constructor put them.
InitParticles_AtOrigin(g, cs) ==
    [g EXCEPT !.width = MeasuredWidth, !.height = MeasuredHeight, !.inits = @ + 1,
              !.particles =
                  [i \in Particles |->
                      NewParticle(Theta(i - 1), Phi(i - 1), cs[i], <<g.inits + 1, i>>)]]

\* init(), lines 134-161, when the context exists; cs = the constructors' draws.
InitParticles(g, cs) ==
    LET w == MeasuredWidth
        h == MeasuredHeight
    IN  [g EXCEPT !.width = w, !.height = h, !.inits = @ + 1,
                  !.particles =
                      [i \in Particles |->
                          [NewParticle(Theta(i - 1), Phi(i - 1), cs[i], <<g.inits + 1, i>>)
                              EXCEPT !.x = w \div 2, !.y = h \div 2]]]

\* init() when getContext gave null: lines 136-144 run, ctx.scale throws.
InitThrows(g) == [g EXCEPT !.width = MeasuredWidth, !.height = MeasuredHeight]

\* Array.prototype.sort with (a, b) => a.depth - b.depth (line 174), stable.
RECURSIVE InsertByDepth(_, _)
InsertByDepth(sorted, p) ==
    IF sorted = << >> THEN << p >>
    ELSE IF sorted[Len(sorted)].depth <= p.depth THEN Append(sorted, p)
    ELSE Append(InsertByDepth(SubSeq(sorted, 1, Len(sorted) - 1), p), sorted[Len(sorted)])
RECURSIVE SortFrom(_, _, _)
SortFrom(ps, i, acc) ==
    IF i > Len(ps) THEN acc ELSE SortFrom(ps, i + 1, InsertByDepth(acc, ps[i]))
SortByDepth(ps) == SortFrom(ps, 1, << >>)

\* Line 171: particles.forEach(p => p.update(rotation)).
UpdateAll(g, rs) ==
    [g EXCEPT !.particles = [i \in DOMAIN g.particles |->
                                ParticleUpdate(g.particles[i], g, g.rotation, rs[i])]]
\* Line 174.
SortAll(g) == [g EXCEPT !.particles = SortByDepth(g.particles)]
\* Line 177: particles.forEach(p => p.draw(ctx)): the calls, in order.
RECURSIVE DrawFrom(_, _)
DrawFrom(ps, i) == IF i > Len(ps) THEN << >> ELSE ParticleDraw(ps[i]) \o DrawFrom(ps, i + 1)
DrawAll(g) == DrawFrom(g.particles, 1)

\* Mutant of AnimateGlobe: the sort run before the update, on stale depths.
AnimateGlobe_SortBeforeUpdate(g, rs) ==
    UpdateAll(SortAll([g EXCEPT !.rotation = @ + ROTATION_SPEED]), rs)

\* Mutant of AnimateGlobe: the rotation advanced after the particles' update.
AnimateGlobe_RotatesAfterUpdate(g, rs) ==
    [SortAll(UpdateAll(g, rs)) EXCEPT !.rotation = @ + ROTATION_SPEED]

\* animate(), lines 163-178, up to the drawing; rs = the draws of line 82.
AnimateGlobe(g, rs) == SortAll(UpdateAll([g EXCEPT !.rotation = @ + ROTATION_SPEED], rs))

\* The draws of Math.random() one frame of g can make.
NoDraws == [i \in Particles |-> 0]
FrameRandoms(g) == IF g.isMouseInCanvas THEN JitterDraws ELSE {NoDraws}

\* ------------------------------------------------------------------------
\* Input handlers (lines 183-208)
\* ------------------------------------------------------------------------
handleMouseMove(g, e) ==
    [g EXCEPT !.mouseX = e.clientX - e.left, !.mouseY = e.clientY - e.top,
              !.isMouseInCanvas = TRUE]
\* Mutant of handleMouseLeave: the pointer state left as it was.
handleMouseLeave_KeepsPointer(g) == g
handleMouseLeave(g) ==
    [g EXCEPT !.isMouseInCanvas = FALSE, !.mouseX = SENTINEL, !.mouseY = SENTINEL]
handleTouchMove(g, e) ==
    [g EXCEPT !.mouseX = e.clientX - e.left, !.mouseY = e.clientY - e.top,
              !.isMouseInCanvas = TRUE]
\* Mutant of handleTouchEnd: the flag cleared, the position kept.
handleTouchEnd_KeepsPosition(g) == [g EXCEPT !.isMouseInCanvas = FALSE]
handleTouchEnd(g) ==
    [g EXCEPT !.isMouseInCanvas = FALSE, !.mouseX = SENTINEL, !.mouseY = SENTINEL]

\* The globes whose listener for an event is registered.
Listening(target, type) ==
    {k \in DOMAIN globes : [target |-> target, type |-> type, globe |-> k] \in listeners}

\* Mutant of handleResize: clearTimeout forgotten.
handleResize_NoClear(st, k) ==
    [ globes |-> [st.globes EXCEPT
                     ![k].resizeTimeout = st.nextTimerId,
                     ![k].bursts = IF \E t \in st.timers : t.id = st.globes[k].resizeTimeout
                                   THEN @ ELSE @ + 1],
      timers |-> st.timers \cup {[id |-> st.nextTimerId, fn |-> "resize", globe |-> k,
                                  delay |-> RESIZE_DELAY]},
      nextTimerId |-> st.nextTimerId + 1 ]

\* handleResize(), lines 212-220, of globe k in the host state st =
\* [globes, timers, nextTimerId].
handleResize(st, k) ==
    [ globes |-> [st.globes EXCEPT
                     ![k].resizeTimeout = st.nextTimerId,
                     ![k].bursts = IF \E t \in st.timers : t.id = st.globes[k].resizeTimeout
                                   THEN @ ELSE @ + 1],
      timers |-> {t \in st.timers : t.id # st.globes[k].resizeTimeout}
                    \cup {[id |-> st.nextTimerId, fn |-> "resize", globe |-> k,
                           delay |-> RESIZE_DELAY]},
      nextTimerId |-> st.nextTimerId + 1 ]

\* The resize event delivered to the listeners from globe k on, in the order
\* of their registration.
RECURSIVE DispatchResize(_, _)
DispatchResize(st, k) ==
    IF k > Len(st.globes) THEN st
    ELSE DispatchResize(IF k \in Listening("window", "resize") THEN handleResize(st, k) ELSE st,
                        k + 1)

\* Mutant of NeedsInit: a change of exactly the threshold re-runs init().
NeedsInit_Inclusive(g) == Abs(containerWidth - g.width) >= RESIZE_THRESHOLD

\* The callback of line 214 of globe k: does it run init()?
NeedsInit(g) == Abs(containerWidth - g.width) > RESIZE_THRESHOLD

\* ------------------------------------------------------------------------
\* initGlobe (lines 10-244), called with the pending timers ts
\* ------------------------------------------------------------------------
\* The globe after init() and the first, synchronous, call of animate().
Mounted(cs) ==
    LET g0 == InitParticles(NewGlobe, cs)
    IN  [AnimateGlobe(g0, NoDraws) EXCEPT !.animationId = nextRafId]

\* Mutant of InitGlobePath: a missing container retried like a missing canvas.
InitGlobePath_RetriesWithoutContainer ==
    IF ~canvasEl \/ ~containerEl THEN "retry"
    ELSE IF ~context2d THEN "throw"
    ELSE "mount"

\* The way a call of initGlobe goes: the retry of lines 12-16, the return of
\* line 20, the TypeError of ctx.scale on a null context at line 145, reached
\* through line 230 after the listeners of lines 223-227, or the whole body.
InitGlobePath ==
    IF ~canvasEl THEN "retry"
    ELSE IF ~containerEl THEN "return"
    ELSE IF ~context2d THEN "throw"
    ELSE "mount"

InitGlobe(ts) ==
    LET k == Len(globes) + 1
    IN  /\ UNCHANGED lastPointer
        /\ InitGlobePath # "retry" \/ nextTimerId <= MaxTimers
        /\ IF InitGlobePath = "retry"
           THEN \* lines 12-16: retry in 100 ms
                /\ timers' = ts \cup {[id |-> nextTimerId, fn |-> "initGlobe", globe |-> 0,
                                       delay |-> RETRY_DELAY]}
                /\ nextTimerId' = nextTimerId + 1
                /\ UNCHANGED << globes, rafQueue, nextRafId, listeners, cleanup, drawn, errors,
                                lastFrame >>
           ELSE IF InitGlobePath = "return"
           THEN \* line 20
                /\ timers' = ts
                /\ UNCHANGED << globes, rafQueue, nextRafId, nextTimerId, listeners, cleanup,
                                drawn, errors, lastFrame >>
           ELSE IF InitGlobePath = "throw"
           THEN \* lines 223-227 register, then init() throws at line 145
                /\ timers' = ts
                /\ listeners' = listeners \cup ListenersOf(k)
                /\ globes' = Append(globes, InitThrows(NewGlobe))
                /\ errors' = errors + 1
                /\ UNCHANGED << rafQueue, nextRafId, nextTimerId, cleanup, drawn, lastFrame >>
           ELSE \* lines 223-243
                \E cs \in ConstructDraws :
                    /\ timers' = ts
                    /\ listeners' = listeners \cup ListenersOf(k)
                    /\ globes' = Append(globes, Mounted(cs))
                    /\ drawn' = DrawAll(Mounted(cs))
                    /\ lastFrame' = [globe |-> k, pre |-> InitParticles(NewGlobe, cs),
                                     rs |-> NoDraws, pointer |-> lastPointer]
                    /\ rafQueue' = rafQueue \cup {[id |-> nextRafId, globe |-> k]}
                    /\ nextRafId' = nextRafId + 1
                    /\ cleanup' = k
                    /\ UNCHANGED << nextTimerId, errors >>

\* ------------------------------------------------------------------------
\* The script's top level (lines 246-263) and the document
\* ------------------------------------------------------------------------
RunScript ==
    /\ ~script
    /\ script' = TRUE
    /\ lastUrl' = href
    /\ IF readyState = "loading"
       THEN /\ domLoadedPending' = TRUE
            /\ UNCHANGED << globes, rafQueue, nextRafId, timers, nextTimerId, listeners,
                            cleanup, drawn, errors, lastFrame, lastPointer >>
       ELSE /\ InitGlobe(timers)
            /\ UNCHANGED domLoadedPending
    /\ UNCHANGED << playground, readyState, href, canvasEl, containerEl, context2d, containerWidth,
                    tornDown, frames >>

DOMContentLoaded ==
    /\ script
    /\ readyState = "loading"
    /\ readyState' = "complete"
    /\ domLoadedPending' = FALSE
    /\ IF domLoadedPending
       THEN InitGlobe(timers)
       ELSE UNCHANGED << globes, rafQueue, nextRafId, timers, nextTimerId, listeners,
                         cleanup, drawn, errors, lastFrame, lastPointer >>
    /\ UNCHANGED << playground, script, href, lastUrl, canvasEl, containerEl,
                    context2d, containerWidth, tornDown, frames >>

\* A navigation of the single-page application: the URL changes and the
\* document is mutated, so the MutationObserver's callback (lines 256-262) runs.
Navigate ==
    /\ script
    /\ href < MaxNavs
    /\ nextTimerId <= MaxTimers
    /\ href' = href + 1
    /\ lastUrl' = href + 1
    /\ timers' = timers \cup {[id |-> nextTimerId, fn |-> "initGlobe", globe |-> 0,
                               delay |-> NAV_DELAY]}
    /\ nextTimerId' = nextTimerId + 1
    /\ UNCHANGED << playground, readyState, script, domLoadedPending, canvasEl, containerEl, context2d,
                    containerWidth, globes, rafQueue, nextRafId, listeners, cleanup, drawn,
                    errors, tornDown, frames, lastFrame, lastPointer >>

\* The canvas element is added to the document.
CanvasAppears ==
    /\ ~canvasEl
    /\ canvasEl' = TRUE
    /\ UNCHANGED << playground, readyState, script, domLoadedPending, href, lastUrl, containerEl,
                    context2d, containerWidth, globes, rafQueue, nextRafId, timers,
                    nextTimerId, listeners, cleanup, drawn, errors, tornDown, frames,
                    lastFrame, lastPointer >>

\* A timer set by line 14 or line 260 runs initGlobe.
InitGlobeTimer ==
    \E t \in timers :
        /\ t.fn = "initGlobe"
        /\ InitGlobe(timers \ {t})
        /\ UNCHANGED << playground, readyState, script, domLoadedPending, href, lastUrl, canvasEl,
                        containerEl, context2d, containerWidth, tornDown, frames >>

\* ------------------------------------------------------------------------
\* Frames
\* ------------------------------------------------------------------------
\* Mutant of Animate: the next frame not requested.
Animate_NoReschedule ==
    \E f \in rafQueue :
        /\ frames < MaxFrames
        /\ \E rs \in FrameRandoms(globes[f.globe]) :
              LET g == AnimateGlobe(globes[f.globe], rs)
              IN  /\ globes' = [globes EXCEPT ![f.globe] = g]
                  /\ drawn' = DrawAll(g)
                  /\ lastFrame' = [globe |-> f.globe, pre |-> globes[f.globe], rs |-> rs,
                                   pointer |-> lastPointer]
        /\ rafQueue' = rafQueue \ {f}
        /\ nextRafId' = nextRafId
        /\ frames' = frames + 1
        /\ UNCHANGED lastPointer
        /\ UNCHANGED << playground, readyState, script, domLoadedPending, href, lastUrl, canvasEl,
                        containerEl, context2d, containerWidth, timers, nextTimerId,
                        listeners, cleanup, errors, tornDown >>

\* The host delivers a requested frame: animate() (lines 163-180) of its globe.
Animate ==
    \E f \in rafQueue :
        /\ frames < MaxFrames
        /\ \E rs \in FrameRandoms(globes[f.globe]) :
              LET g == AnimateGlobe(globes[f.globe], rs)
              IN  /\ globes' = [globes EXCEPT ![f.globe] = [g EXCEPT !.animationId = nextRafId]]
                  /\ drawn' = DrawAll(g)
                  /\ lastFrame' = [globe |-> f.globe, pre |-> globes[f.globe], rs |-> rs,
                                   pointer |-> lastPointer]
        /\ rafQueue' = (rafQueue \ {f}) \cup {[id |-> nextRafId, globe |-> f.globe]}
        /\ nextRafId' = nextRafId + 1
        /\ frames' = frames + 1
        /\ UNCHANGED lastPointer
        /\ UNCHANGED << playground, readyState, script, domLoadedPending, href, lastUrl, canvasEl,
                        containerEl, context2d, containerWidth, timers, nextTimerId,
                        listeners, cleanup, errors, tornDown >>

\* ------------------------------------------------------------------------
\* Pointer and touch events on the canvas
\* ------------------------------------------------------------------------
PointerUnchanged ==
    UNCHANGED << playground, readyState, script, domLoadedPending, href, lastUrl, canvasEl, containerEl,
                 context2d, containerWidth, rafQueue, nextRafId, timers, nextTimerId,
                 listeners, cleanup, drawn, errors, tornDown, frames, lastFrame >>

MouseMove ==
    \E e \in PointerSamples :
        /\ Listening("canvas", "mousemove") # {}
        /\ globes' = [k \in DOMAIN globes |->
                         IF k \in Listening("canvas", "mousemove")
                         THEN handleMouseMove(globes[k], e) ELSE globes[k]]
        /\ lastPointer' = "move"
        /\ PointerUnchanged

MouseLeave ==
    /\ Listening("canvas", "mouseleave") # {}
    /\ globes' = [k \in DOMAIN globes |->
                     IF k \in Listening("canvas", "mouseleave")
                     THEN handleMouseLeave(globes[k]) ELSE globes[k]]
    /\ lastPointer' = "leave"
    /\ PointerUnchanged

TouchMove ==
    \E e \in PointerSamples :
        /\ Listening("canvas", "touchmove") # {}
        /\ globes' = [k \in DOMAIN globes |->
                         IF k \in Listening("canvas", "touchmove")
                         THEN handleTouchMove(globes[k], e) ELSE globes[k]]
        /\ lastPointer' = "move"
        /\ PointerUnchanged

TouchEnd ==
    /\ Listening("canvas", "touchend") # {}
    /\ globes' = [k \in DOMAIN globes |->
                     IF k \in Listening("canvas", "touchend")
                     THEN handleTouchEnd(globes[k]) ELSE globes[k]]
    /\ lastPointer' = "leave"
    /\ PointerUnchanged

\* ------------------------------------------------------------------------
\* Resize
\* ------------------------------------------------------------------------
\* The window is resized while some globe listens: the container gets a width
\* and the resize event is delivered to the registered listeners.
Resize ==
    \E w \in WidthSamples :
        /\ Listening("window", "resize") # {}
        /\ nextTimerId <= MaxTimers
        /\ containerWidth' = w
        /\ LET st == DispatchResize([globes |-> globes, timers |-> timers,
                                     nextTimerId |-> nextTimerId], 1)
           IN  /\ globes' = st.globes
               /\ timers' = st.timers
               /\ nextTimerId' = st.nextTimerId
        /\ UNCHANGED << playground, readyState, script, domLoadedPending, href, lastUrl, canvasEl,
                        containerEl, context2d, rafQueue, nextRafId, listeners, cleanup, drawn,
                        errors, tornDown, frames, lastFrame, lastPointer >>

\* The debounce timer of a globe runs its callback (lines 214-219).
ResizeTimer ==
    \E t \in timers :
        /\ t.fn = "resize"
        /\ timers' = timers \ {t}
        /\ IF ~NeedsInit(globes[t.globe])
           THEN /\ globes' = [globes EXCEPT ![t.globe].settled = @ + 1]
                /\ UNCHANGED errors
           ELSE IF ~context2d
           THEN /\ globes' = [globes EXCEPT ![t.globe] = [InitThrows(@) EXCEPT !.settled = @ + 1]]
                /\ errors' = errors + 1
           ELSE /\ \E cs \in ConstructDraws :
                       globes' = [globes EXCEPT
                                     ![t.globe] = [InitParticles(@, cs) EXCEPT !.settled = @ + 1]]
                /\ UNCHANGED errors
        /\ UNCHANGED << playground, readyState, script, domLoadedPending, href, lastUrl, canvasEl,
                        containerEl, context2d, containerWidth, rafQueue, nextRafId,
                        nextTimerId, listeners, cleanup, drawn, tornDown, frames,
                        lastFrame, lastPointer >>

\* ------------------------------------------------------------------------
\* Teardown
\* ------------------------------------------------------------------------
\* The hosting page invokes window._asciiGlobeCleanup (lines 234-243).
Cleanup ==
    /\ cleanup # 0
    /\ rafQueue' = IF globes[cleanup].animationId # 0
                   THEN {f \in rafQueue : f.id # globes[cleanup].animationId}
                   ELSE rafQueue
    /\ listeners' = listeners \ ListenersOf(cleanup)
    /\ tornDown' = tornDown \cup {cleanup}
    /\ UNCHANGED << playground, readyState, script, domLoadedPending, href, lastUrl, canvasEl, containerEl,
                    context2d, containerWidth, globes, nextRafId, timers, nextTimerId,
                    cleanup, drawn, errors, frames, lastFrame, lastPointer >>

\* ------------------------------------------------------------------------
\* Specification
\* ------------------------------------------------------------------------
Init ==
    /\ PlaygroundInit
    /\ readyState \in {"loading", "complete"}
    /\ script = FALSE
    /\ domLoadedPending = FALSE
    /\ href = 0
    /\ lastUrl = 0
    /\ canvasEl = TRUE
    /\ containerEl = TRUE
    /\ context2d = TRUE
    /\ containerWidth = INITIAL_WIDTH
    /\ globes = << >>
    /\ rafQueue = {}
    /\ nextRafId = 1
    /\ timers = {}
    /\ nextTimerId = 1
    /\ listeners = {}
    /\ cleanup = 0
    /\ drawn = << >>
    /\ errors = 0
    /\ tornDown = {}
    /\ frames = 0
    /\ lastFrame = [globe |-> 0, pre |-> NewGlobe, rs |-> NoDraws, pointer |-> "none"]
    /\ lastPointer = "none"

Next ==
    \/ RunScript
    \/ DOMContentLoaded
    \/ Animate
    \/ MouseMove
    \/ MouseLeave
    \/ TouchMove
    \/ TouchEnd
    \/ Resize
    \/ ResizeTimer
    \/ Cleanup

Spec == Init /\ [][Next]_vars

\* The same script on a page that navigates: the canvas may be missing at
\* first, and every URL change runs initGlobe again.  Pointer and touch events
\* are left to Spec.
InitMount ==
    /\ PlaygroundInit
    /\ readyState \in {"loading", "complete"}
    /\ script = FALSE
    /\ domLoadedPending = FALSE
    /\ href = 0
    /\ lastUrl = 0
    /\ canvasEl \in BOOLEAN
    /\ containerEl = TRUE
    /\ context2d = TRUE
    /\ containerWidth = INITIAL_WIDTH
    /\ globes = << >>
    /\ rafQueue = {}
    /\ nextRafId = 1
    /\ timers = {}
    /\ nextTimerId = 1
    /\ listeners = {}
    /\ cleanup = 0
    /\ drawn = << >>
    /\ errors = 0
    /\ tornDown = {}
    /\ frames = 0
    /\ lastFrame = [globe |-> 0, pre |-> NewGlobe, rs |-> NoDraws, pointer |-> "none"]
    /\ lastPointer = "none"

NextMount ==
    \/ RunScript
    \/ DOMContentLoaded
    \/ Navigate
    \/ CanvasAppears
    \/ InitGlobeTimer
    \/ Animate
    \/ Resize
    \/ ResizeTimer
    \/ Cleanup

SpecMount == InitMount /\ [][NextMount]_vars

\* The same script on a page where the canvas, the container or the 2D
\* context may be missing, without navigation.
InitHost ==
    /\ PlaygroundInit
    /\ readyState \in {"loading", "complete"}
    /\ script = FALSE
    /\ domLoadedPending = FALSE
    /\ href = 0
    /\ lastUrl = 0
    /\ canvasEl \in BOOLEAN
    /\ containerEl \in BOOLEAN
    /\ context2d \in BOOLEAN
    /\ containerWidth = INITIAL_WIDTH
    /\ globes = << >>
    /\ rafQueue = {}
    /\ nextRafId = 1
    /\ timers = {}
    /\ nextTimerId = 1
    /\ listeners = {}
    /\ cleanup = 0
    /\ drawn = << >>
    /\ errors = 0
    /\ tornDown = {}
    /\ frames = 0
    /\ lastFrame = [globe |-> 0, pre |-> NewGlobe, rs |-> NoDraws, pointer |-> "none"]
    /\ lastPointer = "none"

NextHost ==
    \/ RunScript
    \/ DOMContentLoaded
    \/ CanvasAppears
    \/ InitGlobeTimer
    \/ Animate
    \/ Resize
    \/ ResizeTimer
    \/ Cleanup

SpecHost == InitHost /\ [][NextHost]_vars

\* ------------------------------------------------------------------------
\* Properties
\* ------------------------------------------------------------------------
TypeOK ==
    /\ cleanup \in 0..Len(globes)
    /\ \A f \in rafQueue : f.globe \in DOMAIN globes
    /\ \A t \in timers : t.fn = "resize" => t.globe \in DOMAIN globes
    /\ tornDown \subseteq DOMAIN globes

\* The particles of the latest frame's globe are still the ones that frame
\* left: particles are written by animate() and init() only.
LatestFrameIntact ==
    /\ lastFrame.globe # 0
    /\ globes[lastFrame.globe].inits = lastFrame.pre.inits
    /\ globes[lastFrame.globe].rotation = lastFrame.pre.rotation + ROTATION_SPEED

\* The particle of the globe g that has the key of p.
SameParticle(g, p) == g.particles[CHOOSE j \in DOMAIN g.particles : g.particles[j].key = p.key]

\* The resize timers of globe k that are pending.
ResizeTimersOf(k) == {t \in timers : t.fn = "resize" /\ t.globe = k}

\* What globe k holds of the host: frame requests, listeners, timers.
FramesOf(k) == {f \in rafQueue : f.globe = k}
HeldBy(k) == FramesOf(k) \cup (listeners \cap ListenersOf(k)) \cup ResizeTimersOf(k)

\* C1: once the teardown of a globe has been invoked, no step changes the
\* globe's particles (positions, velocities, or the collection itself).
C1_TeardownFreezesParticles ==
    [][\A k \in tornDown : globes'[k].particles = globes[k].particles]_vars

\* C2: in the state right after teardown the globe has no frame callback
\* requested, none of its five listeners registered and no timer pending.
C2_TeardownLeaksNothing ==
    [][Cleanup => (HeldBy(cleanup) = {})']_vars

\* C3: one call of update gives velocity (v + repulsion + (target - position)
\* * RETURN_SPEED) * FRICTION and position + that velocity, the repulsion and
\* the spring taken at the position before the call and the target of the call.
C3_UpdateOrder ==
    LatestFrameIntact =>
        LET pre == lastFrame.pre
            post == globes[lastFrame.globe]
        IN  \A i \in DOMAIN pre.particles :
                LET p == pre.particles[i]
                    q == SameParticle(post, p)
                    t == Project(p, pre, post.rotation)
                    rep == Repel(p, pre, lastFrame.rs[i])
                IN  /\ q.targetX = t.targetX /\ q.targetY = t.targetY
                    /\ q.vx = Friction(p.vx + rep.x + Spring(t.targetX, p.x))
                    /\ q.vy = Friction(p.vy + rep.y + Spring(t.targetY, p.y))
                    /\ q.x = p.x + q.vx
                    /\ q.y = p.y + q.vy

\* A frame in which a moving particle got a repulsion and a spring impulse.
C3_Witness ==
    /\ LatestFrameIntact
    /\ frames >= 1
    /\ \E i \in DOMAIN lastFrame.pre.particles :
          LET p == lastFrame.pre.particles[i]
              t == Project(p, lastFrame.pre, globes[lastFrame.globe].rotation)
          IN  /\ Repel(p, lastFrame.pre, lastFrame.rs[i]).x # 0
              /\ Spring(t.targetX, p.x) # 0
              /\ p.vx # 0

\* C4: a frame run with the pointer-active flag false, and any frame whose
\* latest pointer event was a mouseleave or a touchend, changes every
\* velocity by the spring and the friction alone.
C4_NoRepulsionWhenInactive ==
    (LatestFrameIntact /\ (~lastFrame.pre.isMouseInCanvas \/ lastFrame.pointer = "leave")) =>
        LET pre == lastFrame.pre
            post == globes[lastFrame.globe]
        IN  \A i \in DOMAIN pre.particles :
                LET p == pre.particles[i]
                    q == SameParticle(post, p)
                IN  /\ q.vx = Friction(p.vx + Spring(q.targetX, p.x))
                    /\ q.vy = Friction(p.vy + Spring(q.targetY, p.y))

\* The first frame after the pointer left: the particles still move.
C4_Witness ==
    /\ LatestFrameIntact
    /\ frames >= 1
    /\ lastFrame.pointer = "leave"
    /\ \E i \in DOMAIN lastFrame.pre.particles :
          SameParticle(globes[lastFrame.globe], lastFrame.pre.particles[i]).vx
              # lastFrame.pre.particles[i].vx

\* C5: with the pointer active, the force on a particle at distance d is
\* ((MOUSE_RADIUS - d) / MOUSE_RADIUS)^2 * REPEL_STRENGTH for 0 < d <
\* MOUSE_RADIUS, decreases strictly with d there, and no impulse is applied for
\* d >= MOUSE_RADIUS and for d = 0.
C5_RepulsionForce ==
    (LatestFrameIntact /\ lastFrame.pre.isMouseInCanvas) =>
        LET pre == lastFrame.pre
            post == globes[lastFrame.globe]
            Expected(d) == (((MOUSE_RADIUS - d) * MILLI) \div MOUSE_RADIUS)
                               * (((MOUSE_RADIUS - d) * MILLI) \div MOUSE_RADIUS) * REPEL_STRENGTH
        IN  \A i \in DOMAIN pre.particles :
                LET p == pre.particles[i]
                    q == SameParticle(post, p)
                    dx == p.x - pre.mouseX
                    dy == p.y - pre.mouseY
                    d == Sqrt(dx * dx + dy * dy)
                    j == Jitter(lastFrame.rs[i])
                IN  IF 0 < d /\ d < MOUSE_RADIUS
                    THEN /\ q.vx = Friction(p.vx + Impulse(Expected(d), DirX(dx, dy, d, j))
                                                 + Spring(q.targetX, p.x))
                         /\ q.vy = Friction(p.vy + Impulse(Expected(d), DirY(dx, dy, d, j))
                                                 + Spring(q.targetY, p.y))
                         /\ Force(d) > 0
                         /\ d + 1 < MOUSE_RADIUS => Force(d) > Force(d + 1)
                         /\ \A i2 \in DOMAIN pre.particles :
                               (d < Dist(pre.particles[i2], pre)
                                   /\ Dist(pre.particles[i2], pre) < MOUSE_RADIUS)
                                   => Force(d) > Force(Dist(pre.particles[i2], pre))
                    ELSE /\ q.vx = Friction(p.vx + Spring(q.targetX, p.x))
                         /\ q.vy = Friction(p.vy + Spring(q.targetY, p.y))

\* A frame with the pointer active and two particles inside the radius at
\* different distances, both pushed.
C5_Witness ==
    /\ LatestFrameIntact
    /\ lastFrame.pre.isMouseInCanvas
    /\ \E i, i2 \in DOMAIN lastFrame.pre.particles :
          LET d == Dist(lastFrame.pre.particles[i], lastFrame.pre)
              d2 == Dist(lastFrame.pre.particles[i2], lastFrame.pre)
          IN  /\ 0 < d /\ d < d2 /\ d2 < MOUSE_RADIUS
              /\ Repel(lastFrame.pre.particles[i], lastFrame.pre, lastFrame.rs[i]).x # 0

\* Frames with the pointer active at distance 0 and at distance MOUSE_RADIUS.
C5_ReachesCentre ==
    /\ LatestFrameIntact
    /\ lastFrame.pre.isMouseInCanvas
    /\ \E i \in DOMAIN lastFrame.pre.particles :
          Dist(lastFrame.pre.particles[i], lastFrame.pre) = 0
C5_ReachesEdge ==
    /\ LatestFrameIntact
    /\ lastFrame.pre.isMouseInCanvas
    /\ \E i \in DOMAIN lastFrame.pre.particles :
          Dist(lastFrame.pre.particles[i], lastFrame.pre) = MOUSE_RADIUS

C7_OneDebounceTimer ==
    \A k \in DOMAIN globes :
        /\ Cardinality(ResizeTimersOf(k)) <= 1
        /\ \A t \in ResizeTimersOf(k) : t.id = globes[k].resizeTimeout

\* A second resize event has superseded the timer of the first.
C7_Witness ==
    \E k \in DOMAIN globes :
        /\ globes[k].resizeTimeout = 2
        /\ globes[k].bursts = 1
        /\ ResizeTimersOf(k) # {}

\* C8: invoking the stored teardown leaves no frame callback requested and no
\* listener registered by any globe, earlier or current.
C8_RemountLeaksNothing ==
    [][Cleanup => (rafQueue = {} /\ listeners = {})']_vars

\* C9: every particle drawn in a frame has a depth, computed in that frame,
\* below the visibility threshold.
C9_DrawnAreVisible ==
    LatestFrameIntact =>
        \A c \in DOMAIN drawn :
            \E j \in DOMAIN globes[lastFrame.globe].particles :
                LET q == globes[lastFrame.globe].particles[j]
                IN  /\ q.key = drawn[c].key
                    /\ Z3d(q, globes[lastFrame.globe].rotation) < VISIBLE_DEPTH

\* A frame that drew some particles and culled another.
C9_Witness ==
    /\ LatestFrameIntact
    /\ frames >= 1
    /\ drawn # << >>
    /\ \E j \in DOMAIN globes[lastFrame.globe].particles :
          globes[lastFrame.globe].particles[j].depth >= VISIBLE_DEPTH

\* C10: a frame draws after updating and sorting: the calls carry the updated
\* positions and come in non-decreasing order of the depth of this frame.
C10_DrawnInDepthOrder ==
    LatestFrameIntact =>
        LET post == globes[lastFrame.globe]
            DepthNow(c) == Z3d(SameParticle(post, drawn[c]), post.rotation)
        IN  /\ \A c \in DOMAIN drawn :
                  /\ \E j \in DOMAIN post.particles : post.particles[j].key = drawn[c].key
                  /\ drawn[c].x = SameParticle(post, drawn[c]).x
                  /\ drawn[c].y = SameParticle(post, drawn[c]).y
            /\ \A c1, c2 \in DOMAIN drawn : c1 < c2 => DepthNow(c1) <= DepthNow(c2)
            /\ \A j1, j2 \in DOMAIN post.particles :
                  j1 < j2 => post.particles[j1].depth <= post.particles[j2].depth

\* A frame whose sort moved a particle: the calls are not in creation order.
C10_Witness ==
    /\ LatestFrameIntact
    /\ frames >= 1
    /\ \E c1, c2 \in DOMAIN drawn : c1 < c2 /\ drawn[c1].key[2] > drawn[c2].key[2]

\* The particle of the latest frame's globe that a fillText call drew.
DrawnParticle(c) == SameParticle(globes[lastFrame.globe], drawn[c])

\* C11: the draw order is back to front: of two particles drawn in one frame
\* the later one is at least as near to the viewer, that is, its perspective
\* scale is at least as large.
C11_BackToFront ==
    LatestFrameIntact =>
        \A c1, c2 \in DOMAIN drawn :
            c1 < c2 => Scale(DrawnParticle(c1).depth) <= Scale(DrawnParticle(c2).depth)

\* C12: of two drawn particles of equal base size, the one nearer to the
\* viewer (larger perspective scale) has an alpha and a font size at least as
\* large as the farther one.
C12_NearerIsBolder ==
    LatestFrameIntact =>
        \A c1, c2 \in DOMAIN drawn :
            (/\ DrawnParticle(c1).baseSize = DrawnParticle(c2).baseSize
             /\ Scale(DrawnParticle(c1).depth) > Scale(DrawnParticle(c2).depth))
                => /\ drawn[c1].alpha >= drawn[c2].alpha
                   /\ drawn[c1].size >= drawn[c2].size

\* A particle at its depth and target, displaced from the target by d.
DisplacedBy(p, d) == [p EXCEPT !.x = p.targetX + d, !.y = p.targetY]

\* C13: at a fixed depth the lightness does not decrease and the saturation
\* does not increase with the displacement: a drawn particle is at least as
\* light and at most as saturated as the same particle at rest, a farther
\* displaced one is lighter still and less saturated still, the saturation is
\* never below 30 and the lightness never above 80.
C13_DisplacedRendersHotter ==
    LatestFrameIntact =>
        \A c \in DOMAIN drawn :
            LET q == DrawnParticle(c)
                d == Displacement(q)
                rest == DisplacedBy(q, 0)
                further == DisplacedBy(q, d + UNIT)
            IN  /\ drawn[c].saturation = Saturation(DisplacedBy(q, d))
                /\ drawn[c].lightness = Lightness(DisplacedBy(q, d))
                /\ Saturation(further) <= drawn[c].saturation
                /\ drawn[c].saturation <= Saturation(rest)
                /\ Lightness(rest) <= drawn[c].lightness
                /\ drawn[c].lightness <= Lightness(further)
                /\ drawn[c].saturation >= 30 * MILLI
                /\ drawn[c].lightness <= 80 * MILLI

\* A frame that drew a displaced particle strictly lighter and strictly less
\* saturated than at rest, neither value clamped.
C13_Witness ==
    /\ LatestFrameIntact
    /\ \E c \in DOMAIN drawn :
          LET q == DrawnParticle(c)
          IN  /\ Displacement(q) > 0
              /\ drawn[c].saturation < Saturation(DisplacedBy(q, 0))
              /\ drawn[c].saturation > 30 * MILLI
              /\ drawn[c].lightness > Lightness(DisplacedBy(q, 0))
              /\ drawn[c].lightness < 80 * MILLI

\* ------------------------------------------------------------------------
\* Steady state: the frames of a mounted globe that no pointer disturbs
\* ------------------------------------------------------------------------
\* Where earlier repulsion has left the particles when the pointer goes quiet:
\* an offset from the viewport centre and a velocity, in sub-pixels.
TrackStarts ==
    { [dx |-> 0, dy |-> 0, vx |-> 0, vy |-> 0],
      [dx |-> (0 - 150) * UNIT, dy |-> 100 * UNIT, vx |-> 25 * UNIT, vy |-> (0 - 25) * UNIT] }

\* A pointer that stays in a corner of the canvas, farther than MOUSE_RADIUS
\* from every particle, and a pointer that has left.
TrackPointers ==
    { [mouseX |-> 590 * UNIT, mouseY |-> 390 * UNIT, isMouseInCanvas |-> TRUE],
      [mouseX |-> SENTINEL, mouseY |-> SENTINEL, isMouseInCanvas |-> FALSE] }

\* The closure of a mounted globe whose particles are at the start s.
TrackGlobe(cs, s, ptr) ==
    LET g == InitParticles(NewGlobe, cs)
    IN  [g EXCEPT !.animationId = 1,
                  !.mouseX = ptr.mouseX, !.mouseY = ptr.mouseY,
                  !.isMouseInCanvas = ptr.isMouseInCanvas,
                  !.particles = [i \in DOMAIN g.particles |->
                                    [g.particles[i] EXCEPT !.x = @ + s.dx, !.y = @ + s.dy,
                                                           !.vx = s.vx, !.vy = s.vy]]]

InitTrack ==
    /\ PlaygroundInit
    /\ readyState = "complete"
    /\ script = TRUE
    /\ domLoadedPending = FALSE
    /\ href = 0
    /\ lastUrl = 0
    /\ canvasEl = TRUE
    /\ containerEl = TRUE
    /\ context2d = TRUE
    /\ containerWidth = INITIAL_WIDTH
    /\ \E s \in TrackStarts, ptr \in TrackPointers :
          globes = << TrackGlobe([i \in Particles |-> <<0, 0>>], s, ptr) >>
    /\ rafQueue = {[id |-> 1, globe |-> 1]}
    /\ nextRafId = 2
    /\ timers = {}
    /\ nextTimerId = 1
    /\ listeners = ListenersOf(1)
    /\ cleanup = 1
    /\ drawn = << >>
    /\ errors = 0
    /\ tornDown = {}
    /\ frames = 0
    /\ lastFrame = [globe |-> 0, pre |-> NewGlobe, rs |-> NoDraws, pointer |-> "none"]
    /\ lastPointer = "none"

\* animate() (lines 163-180) delivered again and again.  Math.sin and Math.cos
\* have period TWO_PI, so the rotation is kept modulo TWO_PI; the request id is
\* only ever compared for equality and one request is pending at a time, so it
\* is kept.
AnimateTrack ==
    \E f \in rafQueue :
        /\ \E rs \in FrameRandoms(globes[f.globe]) :
              LET g == AnimateGlobe(globes[f.globe], rs)
              IN  /\ globes' = [globes EXCEPT ![f.globe] = [g EXCEPT !.rotation = @ % TWO_PI]]
                  /\ drawn' = DrawAll(g)
        /\ UNCHANGED << playground, readyState, script, domLoadedPending, href, lastUrl, canvasEl,
                        containerEl, context2d, containerWidth, rafQueue, nextRafId, timers,
                        nextTimerId, listeners, cleanup, errors, tornDown, frames, lastFrame,
                        lastPointer >>

NextTrack ==
    \/ AnimateTrack
    \/ MouseLeave

\* The host keeps delivering the frame it was asked for.  A frame is always
\* requested here, so AnimateTrack is always enabled and weak fairness of it is
\* that it happens again and again.
SpecTrack == InitTrack /\ [][NextTrack]_vars /\ []<><<AnimateTrack>>_vars

\* The tracking error that counts as converged: 5 pixels.
TRACK_EPSILON == 5 * UNIT

\* No particle is inside the repulsion radius of an active pointer.
TrackQuiet ==
    \A k \in DOMAIN globes : \A i \in DOMAIN globes[k].particles :
        ~(globes[k].isMouseInCanvas /\ InRadius(Dist(globes[k].particles[i], globes[k])))

\* Every particle is within TRACK_EPSILON of the target of the latest frame.
TrackClose ==
    \A k \in DOMAIN globes : \A i \in DOMAIN globes[k].particles :
        Displacement(globes[k].particles[i]) < TRACK_EPSILON

\* C14: when from some frame on no repulsion impulse is applied and init() is
\* not re-run, then from some frame on every particle stays within
\* TRACK_EPSILON of its rotating target, whatever its position and velocity
\* were.
C14_SteadyStateTracking == (<>[]TrackQuiet) => (<>[]TrackClose)

\* A particle that started away from its target is tracking it: within
\* TRACK_EPSILON of a target that has moved a quarter turn, and still moving.
C14_Witness ==
    /\ TrackClose
    /\ \E k \in DOMAIN globes :
          /\ globes[k].rotation > HALF_PI
          /\ \E i \in DOMAIN globes[k].particles : globes[k].particles[i].vx # 0

\* ------------------------------------------------------------------------
\* The particles of init()
\* ------------------------------------------------------------------------
\* The creation index (from 0) of a particle.
IndexOf(p) == p.key[2] - 1

\* The polar angles of the script's 600 points ascend within [0, PI], their
\* arguments descend within [-1, 1].
ScriptPhiAscends ==
    \A i \in DOMAIN ScriptPhi :
        /\ 0 <= ScriptPhi[i] /\ ScriptPhi[i] <= PI
        /\ 0 - MILLI <= PhiArg(i, SCRIPT_POINT_COUNT) /\ PhiArg(i, SCRIPT_POINT_COUNT) <= MILLI
        /\ i > 0 => /\ ScriptPhi[i - 1] <= ScriptPhi[i]
                    /\ PhiArg(i - 1, SCRIPT_POINT_COUNT) >= PhiArg(i, SCRIPT_POINT_COUNT)

\* C15: in creation order the polar angle phi = arccos(1 - 2 (i + 0.5) / N)
\* of the particles of init() does not decrease and lies in [0, PI]; the
\* argument does not increase and lies in [-1, 1].  For the collections of
\* the model and for the 600 points of the script.
C15_PolarAnglesAscend ==
    /\ ScriptPhiAscends
    /\ \A k \in DOMAIN globes : \A j1, j2 \in DOMAIN globes[k].particles :
          LET p == globes[k].particles[j1]
              q == globes[k].particles[j2]
          IN  /\ p.phi = Acos(PhiArg(IndexOf(p), POINT_COUNT))
              /\ 0 <= p.phi /\ p.phi <= PI
              /\ 0 - MILLI <= PhiArg(IndexOf(p), POINT_COUNT)
              /\ PhiArg(IndexOf(p), POINT_COUNT) <= MILLI
              /\ IndexOf(p) < IndexOf(q) =>
                    /\ p.phi <= q.phi
                    /\ PhiArg(IndexOf(p), POINT_COUNT) >= PhiArg(IndexOf(q), POINT_COUNT)

\* A full collection, sorted out of creation order, whose polar angles span
\* both hemispheres.
C15_Witness ==
    \E k \in DOMAIN globes :
        /\ Len(globes[k].particles) = POINT_COUNT
        /\ IndexOf(globes[k].particles[1]) # 0
        /\ \E j1, j2 \in DOMAIN globes[k].particles :
              /\ globes[k].particles[j1].phi < HALF_PI
              /\ globes[k].particles[j2].phi > HALF_PI

\* C16: no two particles of one run of init() have the same (theta, phi).
C16_AnglesDistinct ==
    \A k \in DOMAIN globes : \A j1, j2 \in DOMAIN globes[k].particles :
        j1 # j2 => << globes[k].particles[j1].theta, globes[k].particles[j1].phi >>
                       # << globes[k].particles[j2].theta, globes[k].particles[j2].phi >>

\* The collection of a second run of init().
C16_Witness ==
    \E k \in DOMAIN globes :
        /\ globes[k].inits = 2
        /\ Len(globes[k].particles) = POINT_COUNT
        /\ \A j \in DOMAIN globes[k].particles : globes[k].particles[j].key[1] = 2

\* C17: theta, phi, originalTheta, originalPhi, the glyph and the base size
\* of a particle are what the constructor set, after any frames, pointer
\* events and sorts; the rotation is only added to theta when the target and
\* the depth are computed.
C17_AnglesNeverMutated ==
    /\ [](\A k \in DOMAIN globes : \A j \in DOMAIN globes[k].particles :
            LET p == globes[k].particles[j]
            IN  /\ p.theta = Theta(IndexOf(p))
                /\ p.phi = Phi(IndexOf(p))
                /\ p.originalTheta = p.theta
                /\ p.originalPhi = p.phi
                /\ (LatestFrameIntact /\ k = lastFrame.globe) =>
                      p.depth = Z3d([theta |-> Theta(IndexOf(p)), phi |-> Phi(IndexOf(p))],
                                    globes[k].rotation))
    /\ [][\A k \in DOMAIN globes :
            \A j1 \in DOMAIN globes[k].particles : \A j2 \in DOMAIN globes'[k].particles :
                LET p == globes[k].particles[j1]
                    q == globes'[k].particles[j2]
                IN  p.key = q.key =>
                        /\ q.theta = p.theta /\ q.phi = p.phi
                        /\ q.originalTheta = p.originalTheta /\ q.originalPhi = p.originalPhi
                        /\ q.char = p.char /\ q.baseSize = p.baseSize]_vars

\* After a frame that sorted the particles out of creation order and a
\* pointer event, with a glyph and a base size that the draws chose.
C17_Witness ==
    /\ frames >= 1
    /\ lastPointer # "none"
    /\ \E k \in DOMAIN globes :
          /\ globes[k].rotation = 2 * ROTATION_SPEED
          /\ IndexOf(globes[k].particles[1]) # 0
          /\ globes[k].particles[1].char # GLOBE_CHARS[1]
          /\ globes[k].particles[1].baseSize # 8 * MILLI

\* Did this step run a frame of globe k (its first, synchronous, one or a
\* delivered one)?
FrameOf(k) == lastFrame' # lastFrame /\ lastFrame'.globe = k

\* C18: the rotation of a globe starts at 0; a frame adds ROTATION_SPEED to it
\* once, before it updates the particles, and updates them all with that one
\* value; no other step changes it.
C18_RotationOnlyGrows ==
    /\ [](LatestFrameIntact =>
            \A j \in DOMAIN globes[lastFrame.globe].particles :
                LET post == globes[lastFrame.globe]
                    p == post.particles[j]
                IN  /\ p.depth = Z3d(p, lastFrame.pre.rotation + ROTATION_SPEED)
                    /\ p.targetX = Project(p, post, lastFrame.pre.rotation + ROTATION_SPEED).targetX
                    /\ post.rotation > lastFrame.pre.rotation)
    /\ [][\A k \in DOMAIN globes' :
            /\ FrameOf(k) => globes'[k].rotation = lastFrame'.pre.rotation + ROTATION_SPEED
            /\ IF k \in DOMAIN globes
               THEN /\ FrameOf(k) => lastFrame'.pre.rotation = globes[k].rotation
                    /\ ~FrameOf(k) => globes'[k].rotation = globes[k].rotation
               ELSE /\ FrameOf(k) => lastFrame'.pre.rotation = 0
                    /\ ~FrameOf(k) => globes'[k].rotation = 0]_vars

\* Two frames, a pointer event and a re-run of init() later, the rotation is
\* twice ROTATION_SPEED.
C18_Witness ==
    /\ frames >= 1
    /\ lastPointer # "none"
    /\ \E k \in DOMAIN globes :
          /\ globes[k].inits = 2
          /\ globes[k].rotation = 2 * ROTATION_SPEED

\* The keys of the particles of a closure.
KeysOf(g) == {g.particles[j].key : j \in DOMAIN g.particles}

\* g is the closure right after a run of init() on the closure old, with the
\* container measured w wide: POINT_COUNT new particles at rest at the centre.
FreshlyInitialized(g, old, w) ==
    /\ g.inits = old.inits + 1
    /\ g.width = w
    /\ g.height = MeasuredHeight
    /\ Len(g.particles) = POINT_COUNT
    /\ Cardinality(KeysOf(g)) = POINT_COUNT
    /\ KeysOf(g) \cap KeysOf(old) = {}
    /\ \A j \in DOMAIN g.particles :
          /\ g.particles[j].x = w \div 2
          /\ g.particles[j].y = g.height \div 2
          /\ g.particles[j].vx = 0
          /\ g.particles[j].vy = 0

\* C19: every run of init(), the first and each one a resize triggers, leaves
\* exactly POINT_COUNT new particles at the centre of the newly measured
\* viewport with velocity 0 and none of the previous ones; between runs the
\* collection keeps the same POINT_COUNT particles.
C19_InitReplacesParticles ==
    [][\A k \in DOMAIN globes' :
          IF k \notin DOMAIN globes
          THEN /\ FrameOf(k)
               /\ FreshlyInitialized(lastFrame'.pre, NewGlobe, MeasuredWidth')
               /\ KeysOf(globes'[k]) = KeysOf(lastFrame'.pre)
               /\ Len(globes'[k].particles) = POINT_COUNT
          ELSE IF globes'[k].inits # globes[k].inits
          THEN FreshlyInitialized(globes'[k], globes[k], MeasuredWidth')
          ELSE /\ KeysOf(globes'[k]) = KeysOf(globes[k])
               /\ Len(globes'[k].particles) = Len(globes[k].particles)
               /\ Len(globes'[k].particles) = POINT_COUNT]_vars

\* Right after a resize re-ran init() on a globe whose particles had moved:
\* the second collection, at the centre of the 640 pixels wide viewport.
C19_Witness ==
    \E k \in DOMAIN globes :
        /\ globes[k].inits = 2
        /\ globes[k].width = 640 * UNIT
        /\ lastFrame.globe = k
        /\ \E j \in DOMAIN lastFrame.pre.particles : lastFrame.pre.particles[j].vx # 0
        /\ \A j \in DOMAIN globes[k].particles :
              /\ globes[k].particles[j].key[1] = 2
              /\ globes[k].particles[j].x = 320 * UNIT
              /\ globes[k].particles[j].vx = 0

\* C20: whenever the pointer-active flag is false the stored position is the
\* sentinel; after a move event the flag is true and the stored position is
\* the event's client coordinates minus the canvas's top-left corner.
C20_PointerState ==
    \A k \in DOMAIN globes :
        /\ ~globes[k].isMouseInCanvas =>
              globes[k].mouseX = SENTINEL /\ globes[k].mouseY = SENTINEL
        /\ (lastPointer = "move" /\ k \in Listening("canvas", "mousemove")) =>
              /\ globes[k].isMouseInCanvas
              /\ \E e \in PointerSamples :
                    /\ globes[k].mouseX = e.clientX - e.left
                    /\ globes[k].mouseY = e.clientY - e.top

\* The pointer was over the canvas during the latest frame and has left since.
C20_Witness ==
    /\ frames >= 1
    /\ lastFrame.pre.isMouseInCanvas
    /\ lastPointer = "leave"
    /\ \E k \in DOMAIN globes :
          /\ k = lastFrame.globe
          /\ ~globes[k].isMouseInCanvas
          /\ globes[k].mouseX = SENTINEL

\* ------------------------------------------------------------------------
\* Start-up
\* ------------------------------------------------------------------------
\* Does this step call initGlobe (lines 248, 250, 14 or 260)?
InitGlobeCalled ==
    \/ RunScript /\ readyState = "complete"
    \/ DOMContentLoaded /\ domLoadedPending
    \/ InitGlobeTimer

\* The timers that will call initGlobe.
InitGlobeTimers == {t \in timers : t.fn = "initGlobe"}

\* The call of initGlobe of this step has left the page as it was, but for the
\* timers.
NothingStarted ==
    /\ globes' = globes
    /\ listeners' = listeners
    /\ rafQueue' = rafQueue
    /\ cleanup' = cleanup
    /\ errors' = errors
    /\ drawn' = drawn

\* C21: a call of initGlobe that finds the canvas but no 2D context raises no
\* error, requests no frame and registers no listener.
C21_NoContextIsSilent ==
    [][(InitGlobeCalled /\ canvasEl /\ ~context2d) =>
          (errors' = errors /\ rafQueue' = rafQueue /\ listeners' = listeners)]_vars

\* C22: a call of initGlobe that finds the canvas and its context creates the
\* particles and starts the frame loop whatever the container's geometry:
\* with the default width 600 when the container is absent or 0 wide; and a
\* re-run of init() on a container 0 wide uses the default width too.
C22_GeometryTolerated ==
    [][/\ (InitGlobeCalled /\ canvasEl /\ context2d) =>
              /\ Len(globes') = Len(globes) + 1
              /\ Len(globes'[Len(globes')].particles) = POINT_COUNT
              /\ globes'[Len(globes')].width =
                     (IF containerEl /\ containerWidth # 0 THEN containerWidth
                      ELSE DEFAULT_WIDTH)
              /\ \E f \in rafQueue' : f.globe = Len(globes')
       /\ \A k \in DOMAIN globes :
              (globes'[k].inits # globes[k].inits /\ containerWidth = 0) =>
                  globes'[k].width = DEFAULT_WIDTH]_vars

\* The globes whose start-up went through: init() and the first animate().
Looping == {k \in DOMAIN globes : globes[k].animationId # 0}

\* C23: animate requests exactly one next frame as its last step: between
\* frames exactly one frame callback of a globe that has not been torn down is
\* pending, the one animationId names, so the delivery of a frame is always
\* possible and the loop never stops by itself.
C23_LoopNeverStops ==
    /\ [](\A k \in Looping \ tornDown :
            /\ Cardinality(FramesOf(k)) = 1
            /\ \A f \in FramesOf(k) : f.id = globes[k].animationId)
    /\ [][\A k \in DOMAIN globes' :
            FrameOf(k) =>
                /\ FramesOf(k)' = {[id |-> nextRafId, globe |-> k]}
                /\ globes'[k].animationId = nextRafId
                /\ nextRafId' = nextRafId + 1
                /\ FramesOf(k)' \cap rafQueue = {}]_vars

\* A delivered frame has run and the next one is requested.
C23_Witness ==
    /\ frames >= 1
    /\ \E k \in Looping \ tornDown :
          /\ globes[k].rotation = 2 * ROTATION_SPEED
          /\ FramesOf(k) = {[id |-> 2, globe |-> k]}

\* C25: at most one frame loop is requested for the canvas and each of the
\* five handlers is registered at most once, whatever calls of initGlobe the
\* script makes by itself.
C25_OneLoopOneListenerSet ==
    /\ Cardinality(rafQueue) <= 1
    /\ \A l1, l2 \in listeners : (l1.target = l2.target /\ l1.type = l2.type) => l1 = l2

\* C26: a call of initGlobe that finds no canvas sets one timer of 100 ms for
\* itself and does nothing else; one that finds the canvas but no container
\* sets no timer and starts nothing; one that finds both sets no timer and,
\* given a context, initializes: init(), the five listeners, the first frame.
\* One chain of retries has one timer pending at most and initializes once.
C26_StartupRetry ==
    /\ [](Cardinality(InitGlobeTimers) <= 1 /\ Len(globes) <= 1)
    /\ [][InitGlobeCalled =>
            IF ~canvasEl
            THEN /\ InitGlobeTimers' = {[id |-> nextTimerId, fn |-> "initGlobe", globe |-> 0,
                                         delay |-> RETRY_DELAY]}
                 /\ NothingStarted
            ELSE IF ~containerEl
            THEN /\ InitGlobeTimers' = {}
                 /\ NothingStarted
            ELSE /\ InitGlobeTimers' = {}
                 /\ context2d =>
                       /\ Len(globes') = Len(globes) + 1
                       /\ globes'[Len(globes')].inits = 1
                       /\ ListenersOf(Len(globes')) \subseteq listeners'
                       /\ FrameOf(Len(globes'))]_vars

\* The canvas appeared after two retries and the globe is mounted, no retry
\* pending.
C26_Witness ==
    /\ Len(globes) = 1
    /\ globes[1].inits = 1
    /\ globes[1].bursts = 0
    /\ nextTimerId = 3
    /\ timers = {}

\* A call of initGlobe found the canvas without its container and returned.
C26_ReturnedWithoutContainer ==
    /\ script
    /\ readyState = "complete"
    /\ canvasEl
    /\ ~containerEl
    /\ timers = {}
    /\ globes = << >>

\* ------------------------------------------------------------------------
\* The playground: src/playground/src/App.tsx
\* ------------------------------------------------------------------------
MaxEdits == 3
MaxRequests == 2

Operations == {"distance", "within", "contains", "intersects", "area", "length"}
API_URL == "https://api.astral.global"
CHAIN_ID == 84532
ZERO_SCHEMA == "0x0000000000000000000000000000000000000000000000000000000000000000"
ZERO_ADDRESS == "0x0000000000000000000000000000000000000000"
SLIDER_STEP == 50

\* Mutant: the right operand wins when it is truthy.
OrElse_PrefersSecond(a, b) == IF b # "" THEN b ELSE a

\* a || b of JavaScript on strings, "" standing for every falsy value
\* (undefined, null, the empty string).
OrElse(a, b) == IF a # "" THEN a ELSE b

\* Mutant: 'intersects' falls through to the default case.
getGeometryTypeForOperation_IntersectsPoint(op) ==
    IF op \in {"area", "contains"} THEN "Polygon"
    ELSE IF op = "length" THEN "LineString"
    ELSE "Point"

getGeometryTypeForOperation(op) ==
    IF op \in {"area", "contains", "intersects"} THEN "Polygon"
    ELSE IF op = "length" THEN "LineString"
    ELSE "Point"

\* The geometry handleOperationChange and handleDrawDelete fall back to.
DefaultGeometry(type) ==
    IF type = "Polygon" THEN DEFAULT_POLYGON
    ELSE IF type = "LineString" THEN DEFAULT_LINE
    ELSE POINT_A

showDrawControls(op) == op \in {"area", "length", "contains", "intersects"}

\* <DrawControl> is rendered while showDrawControls && useDrawMode; it registers
\* the handlers of the render that mounts it and keeps them until it unmounts.
DrawControlFor(op, draw) ==
    IF showDrawControls(op) /\ draw
    THEN (IF drawControl # NULL THEN drawControl ELSE op)
    ELSE NULL

\* The markers rendered for an operation and geometry B.
Markers(op, gB) ==
    IF op \in {"distance", "within"} THEN {"A", "B"}
    ELSE IF op \in {"contains", "intersects"} /\ gB.type = "Point" THEN {"B"}
    ELSE {}

\* The <option>s of the editor's select.
EditableGeometries(op) ==
    IF op \in {"distance", "within", "contains", "intersects"} THEN {"A", "B"} ELSE {"A"}

\* JSON.stringify of a geometry, of a number, of a string: the tokens written.
StringifyGeometry(g) == << "type", g.type, "coordinates", g.coordinates >>
StringifyNumber(n) == << ToString(n) >>
StringifyString(str) == << str >>

\* The fields every request body starts from.
RequestBase == [chainId |-> CHAIN_ID, schema |-> ZERO_SCHEMA, recipient |-> ZERO_ADDRESS]

\* Mutant: the two geometries of 'contains' change places.
buildRequestBody_ContainsSwapped(op, gA, gB, r) ==
    [k \in DOMAIN RequestBase |-> RequestBase[k]] @@
    CASE op = "distance" -> [from |-> gA, to |-> gB]
      [] op \in {"area", "length"} -> [geometry |-> gA]
      [] op = "contains" -> [container |-> gB, containee |-> gA]
      [] op = "within" -> [geometry |-> gA, target |-> gB, radius |-> r]
      [] op = "intersects" -> [geometry1 |-> gA, geometry2 |-> gB]

buildRequestBody(op, gA, gB, r) ==
    [k \in DOMAIN RequestBase |-> RequestBase[k]] @@
    CASE op = "distance" -> [from |-> gA, to |-> gB]
      [] op \in {"area", "length"} -> [geometry |-> gA]
      [] op = "contains" -> [container |-> gA, containee |-> gB]
      [] op = "within" -> [geometry |-> gA, target |-> gB, radius |-> r]
      [] op = "intersects" -> [geometry1 |-> gA, geometry2 |-> gB]

\* JSON.stringify(body): every field serialised by its kind.
StringifyBody(b) ==
    [k \in DOMAIN b |->
        IF k \in {"chainId", "radius"} THEN StringifyNumber(b[k])
        ELSE IF k \in {"schema", "recipient"} THEN StringifyString(b[k])
        ELSE StringifyGeometry(b[k])]

Endpoint(op) == << API_URL, "compute", "v0", op >>

\* The request fetch sends: its URL and its serialised body.
Request(op, gA, gB, r) ==
    [url |-> Endpoint(op), body |-> StringifyBody(buildRequestBody(op, gA, gB, r))]

\* The cURL snippet of codeSnippets: the URL it posts to and the JSON after -d,
\* built from geomAStr, geomBStr and the template of the operation.
CurlSnippet(op, gA, gB, r) ==
    LET geomAStr == StringifyGeometry(gA)
        geomBStr == StringifyGeometry(gB)
        head == [chainId |-> << "84532" >>, schema |-> << "YOUR_SCHEMA_UID" >>,
                 recipient |-> << "0x..." >>]
        curlBody ==
            CASE op = "distance" -> [from |-> geomAStr, to |-> geomBStr]
              [] op \in {"area", "length"} -> [geometry |-> geomAStr]
              [] op = "contains" -> [container |-> geomAStr, containee |-> geomBStr]
              [] op = "within" -> [geometry |-> geomAStr, target |-> geomBStr,
                                   radius |-> StringifyNumber(r)]
              [] OTHER -> [geometry1 |-> geomAStr, geometry2 |-> geomBStr]
    IN  [url |-> Endpoint(op), body |-> head @@ curlBody]

\* What the network can do with a request.  rejected: fetch's promise rejects
\* with reason (an Error with a message, or some other value); otherwise it is
\* fulfilled with a response of status ok / not ok whose body parses as JSON
\* or does not; detail and message are the fields of a parsed error body, ""
\* when absent.
Outcome(rejected, isError, reason, ok, statusText, parses, detail, message) ==
    [rejected |-> rejected, isError |-> isError, reason |-> reason, ok |-> ok,
     statusText |-> statusText, parses |-> parses, detail |-> detail, message |-> message]

Outcomes ==
    { Outcome(TRUE, TRUE, "Failed to fetch", FALSE, "", FALSE, "", ""),
      Outcome(TRUE, FALSE, "aborted", FALSE, "", FALSE, "", ""),
      Outcome(FALSE, FALSE, "", TRUE, "OK", TRUE, "", ""),
      Outcome(FALSE, FALSE, "", TRUE, "OK", FALSE, "", ""),
      Outcome(FALSE, FALSE, "", FALSE, "Unprocessable Entity", TRUE, "Invalid geometry", "ignored"),
      Outcome(FALSE, FALSE, "", FALSE, "Internal Server Error", TRUE, "", "Attestation failed"),
      Outcome(FALSE, FALSE, "", FALSE, "Bad Request", TRUE, "", ""),
      Outcome(FALSE, FALSE, "", FALSE, "Bad Gateway", FALSE, "", ""),
      Outcome(FALSE, FALSE, "", FALSE, "", FALSE, "", "") }

SYNTAX_ERROR == "Unexpected token < in JSON"

\* The value computeVerified's catch block receives, none when the try block
\* completes: [isError, message].
Thrown(o) ==
    IF o.rejected THEN << [isError |-> o.isError, message |-> o.reason] >>
    ELSE IF ~o.ok
    THEN LET errData == IF o.parses THEN [detail |-> o.detail, message |-> o.message]
                        ELSE [detail |-> o.statusText, message |-> ""]
         IN  << [isError |-> TRUE,
                 message |-> OrElse(OrElse(errData.detail, errData.message),
                                    "API request failed")] >>
    ELSE IF ~o.parses THEN << [isError |-> TRUE, message |-> SYNTAX_ERROR] >>
    ELSE << >>

\* The response body the API computes for a request: an attested result of
\* exactly that request.
Attested(req) == [result |-> "attested", request |-> req]

\* Mutant: the verify button is never disabled.
VerifyDisabled_Never == FALSE

\* The verify button's disabled attribute.
VerifyDisabled == loading

\* useEffect of lines 195-199: runs after a render in which geometryA,
\* geometryB or editingGeometry changed.
\* Mutant: the effect clears the error and leaves the text.
SyncGeojson_KeepsText(changed, edited) ==
    IF changed
    THEN geojsonError' = NULL /\ UNCHANGED geojsonInput
    ELSE UNCHANGED << geojsonInput, geojsonError >>

\* edited is the geometry the editor shows after the render.
SyncGeojson(changed, edited) ==
    IF changed
    THEN geojsonInput' = StringifyPretty(edited) /\ geojsonError' = NULL
    ELSE UNCHANGED << geojsonInput, geojsonError >>

\* The geometry selected by editingGeometry.
Edited(gA, gB, which) == IF which = "A" THEN gA ELSE gB

\* ---- handlers ----
OperationChange ==
    \E newOp \in Operations \ {operation} :
        LET neededType == getGeometryTypeForOperation(newOp)
            convert == geometryA.type # neededType
        IN  /\ edits < MaxEdits
            /\ edits' = edits + 1
            /\ operation' = newOp
            /\ verifiedResult' = NoResult
            /\ error' = NULL
            /\ geometryA' = IF convert THEN DefaultGeometry(neededType) ELSE geometryA
            /\ SyncGeojson(convert, Edited(DefaultGeometry(neededType), geometryB,
                                           editingGeometry))
            /\ drawControl' = DrawControlFor(newOp, useDrawMode)
            /\ UNCHANGED << globe, policy, geometryB, radius, loading, editingGeometry, useDrawMode,
                            inFlight, requests >>
            /\ Render

RadiusSamples == {DEFAULT_RADIUS, DEFAULT_RADIUS + SLIDER_STEP}

RadiusChange ==
    \E value \in RadiusSamples \ {radius} :
        /\ operation = "within"
        /\ edits < MaxEdits
        /\ edits' = edits + 1
        /\ radius' = value
        /\ verifiedResult' = NoResult
        /\ UNCHANGED << globe, policy, operation, geometryA, geometryB, loading, error, geojsonError, geojsonInput,
                        editingGeometry, useDrawMode, drawControl, inFlight, requests >>
        /\ Render

LngLatSamples == {"dragged"}

MarkerDrag ==
    \E marker \in Markers(operation, geometryB), lngLat \in LngLatSamples :
        LET newGeom == [type |-> "Point", coordinates |-> lngLat]
        IN  /\ edits < MaxEdits
            /\ edits' = edits + 1
            /\ IF marker = "A"
               THEN geometryA' = newGeom /\ UNCHANGED geometryB
               ELSE geometryB' = newGeom /\ UNCHANGED geometryA
            /\ verifiedResult' = NoResult
            /\ SyncGeojson(TRUE, IF marker = "A"
                                 THEN Edited(newGeom, geometryB, editingGeometry)
                                 ELSE Edited(geometryA, newGeom, editingGeometry))
            /\ UNCHANGED << globe, policy, operation, radius, loading, error, editingGeometry,
                            useDrawMode, drawControl, inFlight, requests >>
            /\ Render

\* JSON.parse of a text: does it parse, is the value null, and the type and
\* coordinates of the parsed object ("" when the field is missing).  A text
\* parses if it is null or a brace-enclosed list of key and value tokens; a
\* repeated key takes its last value.
JSONField(t, k) ==
    LET at == {i \in 1..((Len(t) - 2) \div 2) : t[2 * i] = k}
    IN  IF at = {} THEN ""
        ELSE t[2 * (CHOOSE i \in at : \A j \in at : j <= i) + 1]

JSONParse(text) ==
    LET t == SelectSeq(text, LAMBDA tok : tok # WS)
    IN  IF t = << "null" >>
        THEN [ok |-> TRUE, isNull |-> TRUE, type |-> "", coordinates |-> ""]
        ELSE IF Len(t) >= 2 /\ Len(t) % 2 = 0 /\ t[1] = "{" /\ t[Len(t)] = "}"
        THEN [ok |-> TRUE, isNull |-> FALSE, type |-> JSONField(t, "type"),
              coordinates |-> JSONField(t, "coordinates")]
        ELSE [ok |-> FALSE, isNull |-> FALSE, type |-> "", coordinates |-> ""]

\* Texts typed into the editor.
GeojsonSamples ==
    { << "{", "type", "Point", "coordinates", "typed", "}" >>,
      << "{", "coordinates", "typed", WS, "type", "Polygon", "}" >>,
      << "{", "type", "Point", "}" >>,
      << "{", "type", "MultiPoint", "coordinates", "typed", "}" >>,
      << "{", "type" >>,
      << "null" >> }

\* Mutant: every type is supported.
GeojsonInvalid_AnyType(p) ==
    IF ~p.ok \/ p.isNull THEN "Invalid JSON syntax"
    ELSE IF p.type = "" \/ p.coordinates = ""
    THEN "Invalid GeoJSON: missing type or coordinates"
    ELSE NULL

\* The message handleGeojsonChange rejects a parse result with, NULL if it
\* accepts it.  Reading parsed.type of null throws inside the try block and
\* ends in the catch block, like a syntax error.
GeojsonInvalid(p) ==
    IF ~p.ok \/ p.isNull THEN "Invalid JSON syntax"
    ELSE IF p.type = "" \/ p.coordinates = ""
    THEN "Invalid GeoJSON: missing type or coordinates"
    ELSE IF p.type \notin {"Point", "Polygon", "LineString"}
    THEN "Supported types: Point, Polygon, LineString"
    ELSE NULL

handleGeojsonChange(value) ==
    LET p == JSONParse(value)
        invalid == GeojsonInvalid(p)
        parsed == [type |-> p.type, coordinates |-> p.coordinates]
    IN  IF invalid # NULL
        THEN /\ geojsonInput' = value
             /\ geojsonError' = invalid
             /\ UNCHANGED << geometryA, geometryB, verifiedResult >>
        ELSE /\ IF editingGeometry = "A"
                THEN geometryA' = parsed /\ UNCHANGED geometryB
                ELSE geometryB' = parsed /\ UNCHANGED geometryA
             /\ verifiedResult' = NoResult
             /\ SyncGeojson(TRUE, parsed)

GeojsonChange ==
    \E value \in GeojsonSamples :
        /\ edits < MaxEdits
        /\ edits' = edits + 1
        /\ handleGeojsonChange(value)
        /\ UNCHANGED << globe, policy, operation, radius, loading, error, editingGeometry,
                        useDrawMode, drawControl, inFlight, requests >>
        /\ Render

\* The events of the draw control: e.features, each feature with its geometry
\* (none when null).
DrawEvents ==
    { << >>,
      << [geometry |-> << >>] >>,
      << [geometry |-> << [type |-> "Polygon", coordinates |-> "drawn"] >>] >>,
      << [geometry |-> << [type |-> "LineString", coordinates |-> "drawn"] >>] >> }

handleDrawCreate(e) ==
    IF Len(e) > 0 /\ e[1].geometry # << >>
    THEN /\ geometryA' = e[1].geometry[1]
         /\ verifiedResult' = NoResult
         /\ SyncGeojson(TRUE, Edited(e[1].geometry[1], geometryB, editingGeometry))
    ELSE UNCHANGED << geometryA, verifiedResult, geojsonError, geojsonInput >>

DrawCreate ==
    \E e \in DrawEvents :
        /\ drawControl # NULL
        /\ edits < MaxEdits
        /\ edits' = edits + 1
        /\ handleDrawCreate(e)
        /\ UNCHANGED << globe, policy, operation, geometryB, radius, loading, error, editingGeometry,
                        useDrawMode, drawControl, inFlight, requests >>
        /\ Render

handleDrawUpdate(e) ==
    IF Len(e) > 0 /\ e[1].geometry # << >>
    THEN /\ geometryA' = e[1].geometry[1]
         /\ verifiedResult' = NoResult
         /\ SyncGeojson(TRUE, Edited(e[1].geometry[1], geometryB, editingGeometry))
    ELSE UNCHANGED << geometryA, verifiedResult, geojsonError, geojsonInput >>

\* The control holds the feature of geometryA (initialDrawFeatures) while
\* geometryA is a polygon or a line: there is something to update or delete.
HoldsFeature == drawControl # NULL /\ geometryA.type \in {"Polygon", "LineString"}

DrawUpdate ==
    \E e \in DrawEvents :
        /\ HoldsFeature
        /\ edits < MaxEdits
        /\ edits' = edits + 1
        /\ handleDrawUpdate(e)
        /\ UNCHANGED << globe, policy, operation, geometryB, radius, loading, error, editingGeometry,
                        useDrawMode, drawControl, inFlight, requests >>
        /\ Render

\* handleDrawDelete as registered by the mounted DrawControl: op is the
\* operation of the render that mounted it.
handleDrawDelete(op) ==
    LET neededType == getGeometryTypeForOperation(op)
    IN  IF neededType \in {"Polygon", "LineString"}
        THEN /\ geometryA' = DefaultGeometry(neededType)
             /\ SyncGeojson(TRUE, Edited(DefaultGeometry(neededType), geometryB,
                                         editingGeometry))
        ELSE UNCHANGED << geometryA, geojsonError, geojsonInput >>

DrawDelete ==
    /\ HoldsFeature
    /\ edits < MaxEdits
    /\ edits' = edits + 1
    /\ handleDrawDelete(drawControl)
    /\ UNCHANGED << globe, policy, operation, geometryB, radius, verifiedResult, loading, error,
                    editingGeometry, useDrawMode, drawControl, inFlight, requests >>
    /\ Render

EditingGeometryChange ==
    \E value \in EditableGeometries(operation) \ {editingGeometry} :
        /\ editingGeometry' = value
        /\ SyncGeojson(TRUE, Edited(geometryA, geometryB, value))
        /\ UNCHANGED << globe, policy, preview, operation, geometryA, geometryB, radius, verifiedResult, loading,
                        error, useDrawMode, drawControl, inFlight, edits, requests >>

DrawModeChange ==
    /\ showDrawControls(operation)
    /\ useDrawMode' = ~useDrawMode
    /\ drawControl' = DrawControlFor(operation, ~useDrawMode)
    /\ UNCHANGED << globe, policy, preview, operation, geometryA, geometryB, radius, verifiedResult, loading,
                    error, geojsonError, geojsonInput, editingGeometry, inFlight, edits, requests >>

\* computeVerified up to its first await: the click on the verify button.
ComputeVerified ==
    /\ ~VerifyDisabled
    /\ requests < MaxRequests
    /\ requests' = requests + 1
    /\ loading' = TRUE
    /\ error' = NULL
    /\ inFlight' = inFlight \cup {Request(operation, geometryA, geometryB, radius)}
    /\ UNCHANGED << globe, policy, preview, operation, geometryA, geometryB, radius, verifiedResult, geojsonError, geojsonInput,
                    editingGeometry, useDrawMode, drawControl, edits >>

\* The rest of computeVerified for one way the request can end.
Settle(req, o) ==
    LET thrown == Thrown(o)
    IN  /\ req \in inFlight
        /\ inFlight' = inFlight \ {req}
        /\ IF thrown = << >>
           THEN /\ verifiedResult' = << Attested(req) >>
                /\ UNCHANGED error
           ELSE /\ error' = IF thrown[1].isError THEN thrown[1].message
                            ELSE "Unknown error"
                /\ UNCHANGED verifiedResult
        /\ loading' = FALSE
        /\ UNCHANGED << globe, policy, preview, operation, geometryA, geometryB, radius, geojsonError, geojsonInput,
                        editingGeometry, useDrawMode, drawControl, edits, requests >>

RequestSettles == \E req \in inFlight, o \in Outcomes : Settle(req, o)

\* The playground page: the App component after its first render.  The globe
\* script is not part of this page.
InitApp ==
    /\ PlaygroundInit
    /\ readyState = "complete"
    /\ script = FALSE
    /\ domLoadedPending = FALSE
    /\ href = 0
    /\ lastUrl = 0
    /\ canvasEl = FALSE
    /\ containerEl = FALSE
    /\ context2d = FALSE
    /\ containerWidth = INITIAL_WIDTH
    /\ globes = << >>
    /\ rafQueue = {}
    /\ nextRafId = 1
    /\ timers = {}
    /\ nextTimerId = 1
    /\ listeners = {}
    /\ cleanup = 0
    /\ drawn = << >>
    /\ errors = 0
    /\ tornDown = {}
    /\ frames = 0
    /\ lastFrame = [globe |-> 0, pre |-> NewGlobe, rs |-> NoDraws, pointer |-> "none"]
    /\ lastPointer = "none"

NextApp ==
    \/ OperationChange
    \/ RadiusChange
    \/ MarkerDrag
    \/ GeojsonChange
    \/ DrawCreate
    \/ DrawUpdate
    \/ DrawDelete
    \/ EditingGeometryChange
    \/ DrawModeChange
    \/ ComputeVerified
    \/ RequestSettles

SpecApp == InitApp /\ [][NextApp]_vars

\* ---- the policy builder (src/unnamed/part_001) ----
SUPPORTED_CHAINS == {84532, 11155111, 8453, 1}

\* Texts typed into the schema input.
SchemaSamples ==
    {"", "0x5c2a7e1b3f9d4c6a8e0b2d4f6a8c0e2a4c6e8a0c2e4a6c8e0a2c4e6a8c0e2a4c"}

\* Mutant: the chain and the schema are sent in both modes.
PolicyBase_IgnoresMode(m, chain, schema) ==
    [chainId |-> chain,
     schema |-> IF schema # "" THEN schema ELSE ZERO_SCHEMA,
     recipient |-> ZERO_ADDRESS]

\* base of buildRequestBody.
PolicyBase(m, chain, schema) ==
    [chainId |-> IF m = "policy" THEN chain ELSE 84532,
     schema |-> IF m = "policy" /\ schema # "" THEN schema ELSE ZERO_SCHEMA,
     recipient |-> ZERO_ADDRESS]

\* The fields the switch of buildRequestBody adds to base.
OperationFields(op, gA, gB, r) ==
    CASE op = "distance" -> [from |-> gA, to |-> gB]
      [] op \in {"area", "length"} -> [geometry |-> gA]
      [] op = "contains" -> [container |-> gA, containee |-> gB]
      [] op = "within" -> [geometry |-> gA, target |-> gB, radius |-> r]
      [] op = "intersects" -> [geometry1 |-> gA, geometry2 |-> gB]

PolicyRequest(op, gA, gB, r, m, chain, schema) ==
    [url |-> Endpoint(op),
     body |-> StringifyBody(PolicyBase(m, chain, schema) @@ OperationFields(op, gA, gB, r))]

ModeChange ==
    \E value \in {"preview", "policy"} \ {mode} :
        /\ mode' = value
        /\ UNCHANGED << globe, chainId, schemaUid, operation, geometryA, geometryB, radius,
                        verifiedResult, loading, error, geojsonError, geojsonInput, preview,
                        editingGeometry, useDrawMode, drawControl, inFlight, edits,
                        requests >>

ChainChange ==
    \E value \in SUPPORTED_CHAINS \ {chainId} :
        /\ mode = "policy"
        /\ chainId' = value
        /\ UNCHANGED << globe, mode, schemaUid, operation, geometryA, geometryB, radius,
                        verifiedResult, loading, error, geojsonError, geojsonInput, preview,
                        editingGeometry, useDrawMode, drawControl, inFlight, edits,
                        requests >>

SchemaChange ==
    \E value \in SchemaSamples \ {schemaUid} :
        /\ mode = "policy"
        /\ schemaUid' = value
        /\ UNCHANGED << globe, mode, chainId, operation, geometryA, geometryB, radius,
                        verifiedResult, loading, error, geojsonError, geojsonInput, preview,
                        editingGeometry, useDrawMode, drawControl, inFlight, edits,
                        requests >>

\* computeVerified of the policy builder up to its first await.
ComputeVerifiedPolicy ==
    /\ ~VerifyDisabled
    /\ requests < MaxRequests
    /\ requests' = requests + 1
    /\ loading' = TRUE
    /\ error' = NULL
    /\ inFlight' = inFlight \cup {PolicyRequest(operation, geometryA, geometryB, radius,
                                                mode, chainId, schemaUid)}
    /\ UNCHANGED << globe, policy, operation, geometryA, geometryB, radius, verifiedResult,
                    geojsonError, geojsonInput, preview, editingGeometry, useDrawMode,
                    drawControl, edits >>

NextPolicy ==
    \/ ModeChange
    \/ ChainChange
    \/ SchemaChange
    \/ ComputeVerifiedPolicy
    \/ RequestSettles
    \/ OperationChange

SpecPolicy == InitApp /\ [][NextPolicy]_vars

\* The preview as a function of its inputs: the App component with any
\* operation, geometries of the editor's three types (well-formed or not) and
\* radius, re-rendered by the handlers that change an input.
PreviewGeometries ==
    { [type |-> t, coordinates |-> "malformed"] : t \in {"Point", "Polygon", "LineString"} }
    \cup { POINT_A, POINT_B, DEFAULT_POLYGON, DEFAULT_LINE,
           [type |-> "Point", coordinates |-> "dragged"],
           [type |-> "Point", coordinates |-> "typed"],
           [type |-> "Polygon", coordinates |-> "drawn"],
           [type |-> "LineString", coordinates |-> "drawn"] }

InitPreview ==
    /\ operation \in Operations
    /\ geometryA \in PreviewGeometries
    /\ geometryB \in PreviewGeometries
    /\ radius \in RadiusSamples
    /\ preview = Preview(operation, geometryA, geometryB, radius)
    /\ mode = "preview"
    /\ chainId = 84532
    /\ schemaUid = ""
    /\ geojsonInput = StringifyPretty(geometryA)
    /\ verifiedResult = NoResult
    /\ loading = FALSE
    /\ error = NULL
    /\ geojsonError = NULL
    /\ editingGeometry = "A"
    /\ useDrawMode = FALSE
    /\ drawControl = NULL
    /\ inFlight = {}
    /\ edits = 0
    /\ requests = 0
    /\ readyState = "complete"
    /\ script = FALSE
    /\ domLoadedPending = FALSE
    /\ href = 0
    /\ lastUrl = 0
    /\ canvasEl = FALSE
    /\ containerEl = FALSE
    /\ context2d = FALSE
    /\ containerWidth = INITIAL_WIDTH
    /\ globes = << >>
    /\ rafQueue = {}
    /\ nextRafId = 1
    /\ timers = {}
    /\ nextTimerId = 1
    /\ listeners = {}
    /\ cleanup = 0
    /\ drawn = << >>
    /\ errors = 0
    /\ tornDown = {}
    /\ frames = 0
    /\ lastFrame = [globe |-> 0, pre |-> NewGlobe, rs |-> NoDraws, pointer |-> "none"]
    /\ lastPointer = "none"

NextPreview ==
    \/ OperationChange
    \/ RadiusChange
    \/ MarkerDrag

SpecPreview == InitPreview /\ [][NextPreview]_vars

\* ------------------------------------------------------------------------
\* Properties of the playground
\* ------------------------------------------------------------------------
BaseFields == {"chainId", "schema", "recipient"}
InputFields(b) == DOMAIN b \ BaseFields

\* The fields of the contract, by operation, and the input each one carries.
ContractFields(op, gA, gB, r) ==
    CASE op = "distance" -> [from |-> StringifyGeometry(gA), to |-> StringifyGeometry(gB)]
      [] op = "within" -> [geometry |-> StringifyGeometry(gA),
                           target |-> StringifyGeometry(gB),
                           radius |-> StringifyNumber(r)]
      [] op = "contains" -> [container |-> StringifyGeometry(gA),
                             containee |-> StringifyGeometry(gB)]
      [] op = "intersects" -> [geometry1 |-> StringifyGeometry(gA),
                               geometry2 |-> StringifyGeometry(gB)]
      [] op \in {"area", "length"} -> [geometry |-> StringifyGeometry(gA)]

\* C24: the request computeVerified sends goes to /compute/v0/<operation> and
\* carries, besides the base fields, exactly the fields of the operation
\* (distance: from, to; within: geometry, target, radius; contains: container,
\* containee; intersects: geometry1, geometry2; area, length: geometry) with
\* the current geometryA, geometryB and radius as values; the cURL snippet of
\* the same state names the same endpoint, the same fields and the same values.
C24_SameInputsSubmitted ==
    [][ComputeVerified =>
        \E req \in inFlight' :
            LET contract == ContractFields(operation, geometryA, geometryB, radius)
                curl == CurlSnippet(operation, geometryA, geometryB, radius)
            IN  /\ inFlight' = {req}
                /\ req.url = << API_URL, "compute", "v0", operation >>
                /\ InputFields(req.body) = DOMAIN contract
                /\ \A k \in DOMAIN contract : req.body[k] = contract[k]
                /\ curl.url = req.url
                /\ InputFields(curl.body) = InputFields(req.body)
                /\ \A k \in InputFields(curl.body) : curl.body[k] = req.body[k]]_vars

\* C24 witness: a 'within' request is in flight that carries a dragged point
\* A and a radius moved off its default.
C24_Witness ==
    \E req \in inFlight :
        /\ req.url = Endpoint("within")
        /\ req.body.geometry = StringifyGeometry([type |-> "Point", coordinates |-> "dragged"])
        /\ req.body.target = StringifyGeometry(POINT_B)
        /\ req.body.radius = StringifyNumber(DEFAULT_RADIUS + SLIDER_STEP)

\* Every operation's request is sent.
C24_EveryOperationSent(op) == \E req \in inFlight : req.url = Endpoint(op)
C24_AreaSent == C24_EveryOperationSent("area")
C24_ContainsSent == C24_EveryOperationSent("contains")

\* The inputs of the computation.
Inputs == << operation, geometryA, geometryB, radius >>

\* C27: every step of a handler that changes an input of the computation
\* (operation, radius, geometryA or geometryB) leaves verifiedResult null.
C27_EditClearsResult ==
    [][Inputs' # Inputs => verifiedResult' = NoResult]_vars

\* C28: whenever verifiedResult is non-null, the request that produced it is
\* the request of the current operation, geometryA, geometryB and radius.
C28_ResultMatchesInputs ==
    verifiedResult # NoResult =>
        verifiedResult[1].request = Request(operation, geometryA, geometryB, radius)

\* C29: loading is true exactly while a request is in flight, and at most one
\* request is in flight; computeVerified sets loading before it sends, and
\* every way the request can end (success, non-OK status, network failure,
\* unparsable body) resets it.
C29_LoadingWhileInFlight ==
    /\ [](loading <=> inFlight # {})
    /\ [](Cardinality(inFlight) <= 1)
    /\ [][ComputeVerified => loading' /\ inFlight' # {}]_vars
    /\ [][\A req \in inFlight, o \in Outcomes :
            Settle(req, o) => ~loading' /\ inFlight' = {}]_vars

\* C29 witness: the first request has settled and a second one is in flight.
C29_Witness ==
    /\ loading
    /\ Cardinality(inFlight) = 1
    /\ requests = 2

\* C29: a request with an unparsable body has settled and loading is false.
C29_SettledUnparsable ==
    /\ ~loading
    /\ inFlight = {}
    /\ requests = 1
    /\ error = SYNTAX_ERROR

\* Does the request end in failure?
Fails(o) == o.rejected \/ ~o.ok \/ ~o.parses

\* The error a failure is reported as.
Reported(o) ==
    IF o.rejected THEN (IF o.isError THEN o.reason ELSE "Unknown error")
    ELSE IF ~o.ok
    THEN IF o.parses
         THEN (IF o.detail # "" THEN o.detail
               ELSE IF o.message # "" THEN o.message
               ELSE "API request failed")
         ELSE (IF o.statusText # "" THEN o.statusText ELSE "API request failed")
    ELSE SYNTAX_ERROR

C30_ReportsStatusText == error = "Bad Gateway" /\ ~loading
C30_ReportsDefault == error = "API request failed" /\ ~loading
C30_ReportsUnknown == error = "Unknown error" /\ ~loading
C30_ReportsMessage == error = "Attestation failed" /\ ~loading

C31_RejectedKeepsResult ==
    /\ geojsonError = "Supported types: Point, Polygon, LineString"
    /\ verifiedResult # NoResult

\* The geometry type an operation needs.
NeededType(op) ==
    CASE op \in {"distance", "within"} -> "Point"
      [] op \in {"area", "contains", "intersects"} -> "Polygon"
      [] op = "length" -> "LineString"

\* C32: after handleOperationChange geometryA has the type the new operation
\* needs: it is unchanged if it had that type already, and the fixed default
\* of that type otherwise; geometryB, radius and editingGeometry are
\* unchanged, and verifiedResult and error are null.
C32_OperationChangeFrame ==
    [][OperationChange =>
        /\ geometryA'.type = NeededType(operation')
        /\ IF geometryA.type = NeededType(operation')
           THEN geometryA' = geometryA
           ELSE geometryA' \in {POINT_A, DEFAULT_POLYGON, DEFAULT_LINE}
        /\ geometryB' = geometryB
        /\ radius' = radius
        /\ editingGeometry' = editingGeometry
        /\ verifiedResult' = NoResult
        /\ error' = NULL]_vars

\* C32 witness: the change to 'length' has replaced geometry A by the default
\* line, with a dragged geometry B and the editor on B left as they were.
C32_Witness ==
    /\ operation = "length"
    /\ geometryA = DEFAULT_LINE
    /\ geometryB = [type |-> "Point", coordinates |-> "dragged"]
    /\ editingGeometry = "B"

\* C32: a drawn polygon is kept by the change from 'contains' to 'intersects'.
C32_KeptGeometry ==
    /\ operation = "intersects"
    /\ drawControl = "contains"
    /\ geometryA = [type |-> "Polygon", coordinates |-> "drawn"]

\* Does the operation get the geometry types it needs?
HasNeededTypes(op, gA, gB) ==
    CASE op \in {"distance", "within"} -> gA.type = "Point" /\ gB.type = "Point"
      [] op = "contains" -> gA.type = "Polygon" /\ gB.type = "Point"
      [] op = "intersects" -> gA.type = "Polygon" /\ gB.type = "Point"
      [] op = "area" -> gA.type = "Polygon"
      [] op = "length" -> gA.type = "LineString"

\* The geometries the operation hands to the geometry library.
UsedGeometries(op, gA, gB) == IF op \in {"area", "length"} THEN {gA} ELSE {gA, gB}

\* C33: the preview is a record for every operation and pair of geometry
\* types; its value is null whenever the operation lacks the types it needs
\* (distance, within: two Points; contains, intersects: Polygon A and Point B;
\* area: Polygon A; length: LineString A); a failure inside the geometry
\* library gives value null with label 'Error calculating'; and the value of
\* 'within' is true exactly when the distance is at most the radius.
C33_PreviewTotal ==
    /\ preview = Preview(operation, geometryA, geometryB, radius)
    /\ preview.kind \in {"null", "number", "boolean"}
    /\ ~HasNeededTypes(operation, geometryA, geometryB) => preview.kind = "null"
    /\ ( /\ HasNeededTypes(operation, geometryA, geometryB)
         /\ \E g \in UsedGeometries(operation, geometryA, geometryB) : ~TurfAccepts(g) )
       => preview.kind = "null" /\ preview.label = << "Error calculating" >>
    /\ ( /\ operation = "within"
         /\ preview.kind # "null" )
       => /\ preview.kind = "boolean"
          /\ preview.truth <=> (TurfDistance(geometryA, geometryB) <= radius * MM)

\* C33 witness: after a drag, point A is exactly radius metres from point B
\* and the preview of 'within' is true.
C33_Witness ==
    /\ operation = "within"
    /\ edits > 0
    /\ TurfDistance(geometryA, geometryB) = radius * MM
    /\ preview.kind = "boolean"
    /\ preview.truth

\* C33: the library throws on malformed coordinates and the preview reports it.
C33_ErrorCalculating ==
    /\ edits > 0
    /\ ~TurfAccepts(geometryA)
    /\ preview.label = << "Error calculating" >>

\* C33: 'intersects' with a polygon B has no value.
C33_IntersectsPolygonB ==
    /\ operation = "intersects"
    /\ edits > 0
    /\ geometryA.type = "Polygon"
    /\ geometryB.type = "Polygon"
    /\ preview = NullPreview(<< "Intersects" >>)

\* C34: a request sent in preview mode carries chainId 84532 and the all-zero
\* schema whatever chainId and schemaUid hold; one sent in policy mode carries
\* the selected chainId and the schemaUid entered, or the all-zero schema when
\* schemaUid is empty; the recipient is always the zero address; and a change
\* of mode, chain or schema changes neither operation, geometryA, geometryB,
\* radius nor verifiedResult.
C34_ModeSelectsChainAndSchema ==
    /\ [][ComputeVerifiedPolicy =>
            \E req \in inFlight' :
                /\ inFlight' = {req}
                /\ req.body.chainId =
                        << ToString(IF mode = "preview" THEN 84532 ELSE chainId) >>
                /\ req.body.schema =
                        << IF mode = "preview" \/ schemaUid = ""
                           THEN "0x0000000000000000000000000000000000000000000000000000000000000000"
                           ELSE schemaUid >>
                /\ req.body.recipient = << "0x0000000000000000000000000000000000000000" >>]_vars
    /\ [][policy' # policy => Inputs' = Inputs /\ verifiedResult' = verifiedResult]_vars

\* C34 witness: a request sent in preview mode is in flight with chain 84532
\* and the all-zero schema, after another chain and a schema were entered in
\* policy mode.
C34_Witness ==
    /\ mode = "preview"
    /\ chainId = 8453
    /\ schemaUid # ""
    /\ \E req \in inFlight :
          /\ req.body.chainId = << "84532" >>
          /\ req.body.schema = << ZERO_SCHEMA >>

\* C34: a request sent in policy mode carries the chain and the schema entered.
C34_PolicySent ==
    /\ mode = "policy"
    /\ \E req \in inFlight :
          /\ req.body.chainId = << "11155111" >>
          /\ req.body.schema = << schemaUid >>
          /\ schemaUid # ""

\* C34: a request sent in policy mode with no schema entered carries the
\* all-zero schema.
C34_PolicyFallback ==
    /\ mode = "policy"
    /\ schemaUid = ""
    /\ \E req \in inFlight :
          /\ req.body.chainId = << "1" >>
          /\ req.body.schema = << ZERO_SCHEMA >>

\* C34: the mode changes while a verified result is displayed.
C34_ModeChangedWithResult ==
    /\ mode = "policy"
    /\ verifiedResult # NoResult
    /\ verifiedResult[1].request.body.chainId = << "84532" >>
    /\ requests = 1

\* Does the text parse to the geometry g?
ParsesTo(text, g) ==
    LET p == JSONParse(text)
    IN  /\ p.ok
        /\ ~p.isNull
        /\ [type |-> p.type, coordinates |-> p.coordinates] = g

C35_RejectedTextShown ==
    /\ geojsonError = "Invalid GeoJSON: missing type or coordinates"
    /\ geojsonInput = << "{", "type", "Point", "}" >>
    /\ ~ParsesTo(geojsonInput, Edited(geometryA, geometryB, editingGeometry))
====
